---- MODULE Spec2Model ----
(***************************************************************************)
(* Model of the az-lang interpreter's embedded web server and of the       *)
(* evaluator steps that bear on it: the process-wide server and route      *)
(* registries, the registry readers-writer lock, the serve / when / route  *)
(* / stop server / reply statements, request dispatch, handler frames and  *)
(* the propagation of Error results.                                       *)
(* One evaluator task (the main program or REPL) and request-handler tasks *)
(* run concurrently, as the goroutines of the host HTTP server do.         *)
(***************************************************************************)
EXTENDS Integers, Sequences, FiniteSets, TLC

\* ---------------------------------------------------------------- bounds
NumPorts == 2       \* ports a statement may name
MaxHandlers == 1    \* request-handler tasks that may run at the same time
MaxServers == 2     \* http.Server values reachable at the same time
MaxRoutes == 1      \* distinct RouteHandler values statements register
MaxTable == 2       \* routes in a table drawn for dispatch
MaxInt == 2         \* largest Integer a variable takes
MaxHeaders == 1     \* header pairs of a reply statement

\* ------------------------------------------------------ program constants
InitialDefaultPort == 8080
StatusOK == 200
StatusNotFound == 404

Ports == {InitialDefaultPort + i : i \in 0..(NumPorts - 1)}
Main == 0
Handlers == 1..MaxHandlers
Servers == 1..MaxServers
Tasks == {Main} \cup Handlers
RouteMethods == {"", "GET", "POST"}
RequestMethods == {"GET", "POST"}
Paths == {"/", "/a"}
Names == {"x", "req"}

VARIABLES
    serverRegistry,  \* port -> index into srv of the registered ServerInfo, 0 = no entry
    routeRegistry,   \* port -> sequence of RouteHandler (<<>> = no entry)
    defaultPort,     \* the port when / route statements register against
    mu,              \* registryMu: the tasks inside a write-locked section that waits
    srv,             \* the http.Server values: slot -> listener and goroutine state
    pc,              \* task -> position in the statement or handler it runs
    op,              \* task -> operands of the statement it runs
    req,             \* handler task -> the request it serves
    frames,          \* task -> store of the innermost Environment it evaluates in
    result,          \* value of the statement evaluated last
    resp,            \* the response the last step wrote
    evaluated,       \* sub-results the statement evaluated last obtained, in order
    lastServe,       \* history: ports of the latest serve statements
    source,          \* the lexemes of the line read last
    program,         \* the Program parsed from it, with the parser's errors
    environments,    \* the Environments: index -> store and outer (1 = global)
    lists,           \* the List objects: index -> elements
    printed,         \* the lines printed while the line read last ran
    returned,        \* the object its evaluation returned
    called,          \* history: the calls made while it ran
    nread            \* number of lines read

vars == <<serverRegistry, routeRegistry, defaultPort, mu, srv, pc, op, req,
          frames, result, resp, evaluated, lastServe,
          source, program, environments, lists, printed, returned, called, nread>>

\* the interpreter session, and the server and statement state beside it
session == <<source, program, environments, lists, printed, returned, called, nread>>
server == <<serverRegistry, routeRegistry, defaultPort, mu, srv, pc, op, req,
            frames, result, resp, evaluated, lastServe>>

\* --------------------------------------------------------------- values
EmptyMap == [n \in {} |-> ""]
NoOp == [kind |-> "none"]
NoReq == [method |-> "", path |-> "", sid |-> 0, port |-> 0]
NoResp == [status |-> 0, body |-> "", headers |-> EmptyMap]
Nil == [type |-> "nil"]
NULL == [type |-> "NULL"]
Unbound == [type |-> "unbound"]
IntegerObj(n) == [type |-> "INTEGER", value |-> n]
StringObj(s) == [type |-> "STRING", value |-> s]
BooleanObj(b) == [type |-> "BOOLEAN", value |-> b]
ServerObj(port) == [type |-> "SERVER", port |-> port, running |-> TRUE]
ErrorObj(msg) == [type |-> "ERROR", message |-> msg]
RequestObj(r) == [type |-> "REQUEST", method |-> r.method, path |-> r.path]
ReplyValue(body, status, headers) ==
    [type |-> "REPLY_VALUE", body |-> body, status |-> status, headers |-> headers]

isError(obj) == obj.type = "ERROR"

\* object.NewEnvironment
NewEnvironment == [store |-> <<>>, outer |-> 0]

NoProgram == [type |-> "Program", statements |-> <<>>, errors |-> <<>>]

\* runREPL and runFile start with one empty environment and nothing read
InitSession ==
    /\ source = <<>>
    /\ program = NoProgram
    /\ environments = <<NewEnvironment>>
    /\ lists = <<>>
    /\ printed = <<>>
    /\ returned = Nil
    /\ called = <<>>
    /\ nread = 0

RECURSIVE Digits(_)
Digits(n) == IF n < 10 THEN SubSeq("0123456789", n + 1, n + 1)
             ELSE Digits(n \div 10) \o SubSeq("0123456789", (n % 10) + 1, (n % 10) + 1)

\* fmt.Sprintf("%d", n)
FormatInt(n) == IF n < 0 THEN "-" \o Digits(-n) ELSE Digits(n)

\* fmt.Sprintf("%t", b)
FormatBool(b) == IF b THEN "true" ELSE "false"

\* fmt.Sprintf("%q", s) of a string of letters
Quote(s) == "\"" \o s \o "\""

\* Object.Inspect
Inspect(v) ==
    CASE v.type = "INTEGER" -> FormatInt(v.value)
      [] v.type = "STRING" -> v.value
      [] v.type = "BOOLEAN" -> FormatBool(v.value)
      [] v.type = "NULL" -> "null"
      [] v.type = "ERROR" -> "ERROR: " \o v.message
      [] v.type = "REQUEST" -> "Request{method: " \o v.method \o ", path: "
                               \o v.path \o "}"
      [] v.type = "SERVER" -> "Server{port: " \o FormatInt(v.port) \o ", running: "
                               \o FormatBool(v.running) \o "}"
      [] v.type = "REPLY_VALUE" -> "Reply{status: " \o FormatInt(v.status)
                               \o ", body: " \o Quote(v.body) \o "}"

\* ----------------------------------------------------------- environments
\* A handler task's frame encloses the captured environment, which is the
\* global frame the evaluator task runs in.
NoBindings == [n \in Names |-> Unbound]

\* Environment.Get: the innermost store, then the outer ones
EnvGet(fr, t, name) ==
    IF fr[t][name] # Unbound THEN fr[t][name]
    ELSE IF t # Main THEN fr[Main][name]
    ELSE Unbound

\* a Set that writes through to the enclosed global store
EnvSetOuter(fr, t, name, val) == [fr EXCEPT ![Main][name] = val]

\* Environment.Set: always the innermost store
EnvSet(fr, t, name, val) == [fr EXCEPT ![t][name] = val]

\* NewEnclosedEnvironment(outer), with the request variable bound when named
HandlerScope(fr, t, var, reqObj) ==
    IF var # ""
    THEN EnvSet([fr EXCEPT ![t] = NoBindings], t, var, reqObj)
    ELSE [fr EXCEPT ![t] = NoBindings]

\* ------------------------------------------------------------ registryMu
\* A critical section that cannot wait is one step, taken only when the lock
\* would be granted. Shutdown waits inside the write-locked section of stop
\* server, so that section spans steps and mu names its holder meanwhile.

\* a lock that never makes a writer wait
LockAlwaysGranted == TRUE

\* registryMu.Lock() would be granted
CanLock == mu = {}

\* registryMu.RLock() would be granted
CanRLock == mu = {}

\* ------------------------------------------------------- request dispatch
\* a match on the path alone
matchAnyMethod(route, r) == route.path = r.path

\* matchRoute: the route's method is empty or the request's, and the paths are equal
matchRoute(route, r) ==
    IF route.method # "" /\ route.method # r.method
    THEN FALSE
    ELSE route.path = r.path

\* `for _, route := range routes`: index of the route whose handler runs, 0 if none
RECURSIVE FindRoute(_, _, _)
FindRoute(rs, r, i) ==
    IF i > Len(rs) THEN 0
    ELSE IF matchRoute(rs[i], r) THEN i
    ELSE FindRoute(rs, r, i + 1)

\* the result of a handler body, after `if returnValue, ok := result.(*ReturnValue)`
Unwrap(v) == IF v.type = "RETURN_VALUE" THEN v.value ELSE v

\* what the handler's result puts on the wire
WriteResponse(v) ==
    IF v.type = "REPLY_VALUE"
    THEN [status |-> v.status, body |-> v.body, headers |-> v.headers]
    ELSE [status |-> StatusOK,
          body |-> IF v.type # "nil" THEN Inspect(v) ELSE "",
          headers |-> EmptyMap]

NotFound == [status |-> StatusNotFound, body |-> "Not Found", headers |-> EmptyMap]

\* ------------------------------------------------------- statement frame
\* result, resp and evaluated show what the step just taken returned, wrote
\* and evaluated: a step that does none of it leaves them blank
Silent == result' = Nil /\ resp' = NoResp /\ evaluated' = <<>>

\* a task may start a statement: the evaluator between statements, a handler
\* task while its matched handler body runs
StmtReady(t) == IF t = Main THEN pc[t] = "idle" ELSE pc[t] = "exec"

\* the statement of task t returns val and, in a handler task, ends the body:
\* val is the body's value, so the response is written
Return(t, val) ==
    /\ result' = val
    /\ pc' = [pc EXCEPT ![t] = "idle"]
    /\ op' = [op EXCEPT ![t] = NoOp]
    /\ resp' = IF t \in Handlers THEN WriteResponse(Unwrap(val)) ELSE NoResp

\* the connections once task t has returned: a handler's connection goes idle
Done(t) == IF t \in Handlers THEN [req EXCEPT ![t] = NoReq] ELSE req

\* the frames once task t has returned: a handler's child frame is dropped
Discard(fr, t) == IF t \in Handlers THEN [fr EXCEPT ![t] = NoBindings] ELSE fr

\* a statement that binds nothing returns
Leave(t) == req' = Done(t) /\ frames' = Discard(frames, t) /\ evaluated' = <<>>

\* a statement of a block yields val, having obtained the sub-results tr and
\* left the stores as fr: an Error ends a handler body, any other value lets
\* it go on (evalBlockStatement)
Yield(t, val, tr, fr) ==
    /\ evaluated' = tr
    /\ IF t \in Handlers /\ isError(val)
       THEN /\ Return(t, val)
            /\ req' = Done(t)
            /\ frames' = Discard(fr, t)
       ELSE /\ result' = val
            /\ resp' = NoResp
            /\ frames' = fr
            /\ UNCHANGED <<pc, op, req>>

\* a server whose ListenAndServe has returned, whose goroutine has ended and
\* which no registry entry refers to is unreachable: nothing reads it again
Unreachable == [port |-> 0, state |-> "closed", running |-> FALSE, g |-> "done"]

Collect(sv, reg) ==
    [s \in DOMAIN sv |->
        IF sv[s].g = "done" /\ (\A p \in Ports : reg[p] # s)
        THEN Unreachable ELSE sv[s]]

\* the servers and connections after a step: unreachable servers are dropped,
\* and the requests they accepted no longer count as their connections
Settle(sv, reg, rq) ==
    /\ srv' = Collect(sv, reg)
    /\ req' = [t \in Handlers |->
                 IF rq[t].sid # 0 /\ srv'[rq[t].sid] = Unreachable
                 THEN [rq[t] EXCEPT !.sid = 0] ELSE rq[t]]

FreeSlots == {s \in Servers : srv[s] = Unreachable}

NewServer == CHOOSE s \in FreeSlots : \A s2 \in FreeSlots : s <= s2

\* RouteHandler values in a table or being run
LiveRoutes ==
    UNION {{routeRegistry[p][i].id : i \in DOMAIN routeRegistry[p]} : p \in Ports}
      \cup {op[t].route.id : t \in {u \in Tasks : op[u].kind = "handler"}}

NewRoute ==
    CHOOSE i \in 1..MaxRoutes :
        i \notin LiveRoutes /\ (\A j \in 1..(i - 1) : j \in LiveRoutes)

\* connections of server s that are serving a request
ActiveConns(s) == {t \in Handlers : pc[t] # "idle" /\ req[t].sid = s}

\* http.Server.Shutdown closes the listener; a server that has not started
\* listening yet returns ErrServerClosed from ListenAndServe
CloseListener(sv, s) ==
    [sv EXCEPT ![s].state = IF @ \in {"new", "listening"} THEN "closed" ELSE @]

\* a statement that binds nothing returns, and the servers are settled
LeaveSettled(t, sv, reg) ==
    /\ Settle(sv, reg, Done(t))
    /\ frames' = Discard(frames, t)
    /\ evaluated' = <<>>

\* ------------------------------------------------------------------ serve
\* a serve that takes the default port's routes out of their table
MoveOver(rr, port, dp) ==
    IF port # dp /\ Len(rr[dp]) > 0
    THEN [rr EXCEPT ![port] = rr[port] \o rr[dp], ![dp] = <<>>]
    ELSE rr

\* a later serve on another port appends the default port's routes to its table
CarryOver(rr, port, dp) ==
    IF port # dp /\ Len(rr[dp]) > 0
    THEN [rr EXCEPT ![port] = rr[port] \o rr[dp]]
    ELSE rr

\* a default port that serve leaves alone
StaleDefaultPort(port, dp) == dp

\* `defaultPort = port` of a serve statement that stores its entry
NextDefaultPort(port, dp) == port

\* the port expression is not an Integer
ServeBadPort(t) ==
    /\ StmtReady(t)
    /\ Return(t, ErrorObj("serve port must be an integer"))
    /\ Leave(t)
    /\ UNCHANGED <<serverRegistry, routeRegistry, defaultPort, mu, srv, lastServe>>
    /\ UNCHANGED session

\* port evaluated; Lock; `if _, exists := serverRegistry[port]; exists`; Unlock;
\* then the mux, the http.Server and the ServerInfo are built
ServeCheck(t, p, b) ==
    /\ StmtReady(t)
    /\ CanLock
    /\ lastServe' = [lastServe EXCEPT !.passed = p]
    /\ IF serverRegistry[p] # 0
       THEN /\ Return(t, ErrorObj("server already running on port " \o FormatInt(p)))
            /\ Leave(t)
            /\ UNCHANGED srv
       ELSE /\ FreeSlots # {}
            /\ srv' = [srv EXCEPT ![NewServer] =
                         [port |-> p, state |-> "new", running |-> TRUE, g |-> "new"]]
            /\ op' = [op EXCEPT ![t] = [kind |-> "serve", port |-> p, bg |-> b,
                                        sid |-> NewServer]]
            /\ pc' = [pc EXCEPT ![t] = "serveLock2"]
            /\ Silent
            /\ UNCHANGED <<req, frames>>
    /\ UNCHANGED <<serverRegistry, routeRegistry, defaultPort, mu>>
    /\ UNCHANGED session

\* a serve that never waits for its listener
ServeNeverWaits(o) == TRUE

\* the statement returns a Server value at once when `in background` was given
ServeReturnsAtOnce(o) == o.bg

\* Lock; the entry is stored, routes are carried over, the default port moves;
\* Unlock; the listener is started in a goroutine or in the calling task
ServeRegister(t) ==
    /\ pc[t] = "serveLock2"
    /\ CanLock
    /\ serverRegistry' = [serverRegistry EXCEPT ![op[t].port] = op[t].sid]
    /\ routeRegistry' = CarryOver(routeRegistry, op[t].port, defaultPort)
    /\ defaultPort' = NextDefaultPort(op[t].port, defaultPort)
    /\ lastServe' = [lastServe EXCEPT !.registered = op[t].port]
    /\ IF ServeReturnsAtOnce(op[t])
       THEN /\ Return(t, ServerObj(op[t].port))
            /\ LeaveSettled(t, [srv EXCEPT ![op[t].sid].g = "run"], serverRegistry')
       ELSE /\ pc' = [pc EXCEPT ![t] = "serveFg"]
            /\ Silent
            /\ Settle([srv EXCEPT ![op[t].sid].g = "fg"], serverRegistry', req)
            /\ UNCHANGED <<op, frames>>
    /\ UNCHANGED mu
    /\ UNCHANGED session

\* ListenAndServe of server s has been called and has not returned
Started(s) == srv[s].g \in {"fg", "run"}

\* server.ListenAndServe binds the port
ListenOk(s) ==
    /\ srv[s].state = "new"
    /\ Started(s)
    /\ \A s2 \in Servers : srv[s2].state = "listening" => srv[s2].port # srv[s].port
    /\ srv' = [srv EXCEPT ![s].state = "listening"]
    /\ Silent
    /\ UNCHANGED <<serverRegistry, routeRegistry, defaultPort, mu, pc, op,
                   req, frames, lastServe>>
    /\ UNCHANGED session

\* server.ListenAndServe cannot bind the port (in use by this or another process)
ListenFail(s) ==
    /\ srv[s].state = "new"
    /\ Started(s)
    /\ srv' = [srv EXCEPT ![s].state = "failed"]
    /\ Silent
    /\ UNCHANGED <<serverRegistry, routeRegistry, defaultPort, mu, pc, op,
                   req, frames, lastServe>>
    /\ UNCHANGED session

\* foreground: ListenAndServe has returned
ServeFgReturn(t) ==
    /\ pc[t] = "serveFg"
    /\ srv[op[t].sid].state \in {"closed", "failed"}
    /\ Return(t, IF srv[op[t].sid].state = "closed" THEN NULL
                 ELSE ErrorObj("server error: listen"))
    /\ LeaveSettled(t, [srv EXCEPT ![op[t].sid].g = "done"], serverRegistry)
    /\ UNCHANGED <<serverRegistry, routeRegistry, defaultPort, mu, lastServe>>
    /\ UNCHANGED session

\* background goroutine: ListenAndServe has returned; Lock; Running of whatever
\* entry the port has now is cleared; Unlock
BgExit(s) ==
    /\ srv[s].g = "run"
    /\ srv[s].state \in {"closed", "failed"}
    /\ CanLock
    /\ LET cur == serverRegistry[srv[s].port]
       IN Settle(IF cur # 0
                 THEN [srv EXCEPT ![s].g = "done", ![cur].running = FALSE]
                 ELSE [srv EXCEPT ![s].g = "done"], serverRegistry, req)
    /\ Silent
    /\ UNCHANGED <<serverRegistry, routeRegistry, defaultPort, mu, pc, op,
                   frames, lastServe>>
    /\ UNCHANGED session

\* ------------------------------------------------------------ stop server
\* `stop server on <expr>`: Lock; the port expression is not an Integer; Unlock
StopBadPort(t) ==
    /\ StmtReady(t)
    /\ CanLock
    /\ Return(t, ErrorObj("stop server port must be an integer"))
    /\ Leave(t)
    /\ UNCHANGED <<serverRegistry, routeRegistry, defaultPort, mu, srv, lastServe>>
    /\ UNCHANGED session

\* `stop server on p`: Lock (Unlock deferred); the port is evaluated and looked
\* up; Shutdown closes the listener and starts to wait for the connections
StopBegin(t, p) ==
    /\ StmtReady(t)
    /\ CanLock
    /\ IF serverRegistry[p] = 0
       THEN /\ Return(t, ErrorObj("no server running on port " \o FormatInt(p)))
            /\ Leave(t)
            /\ UNCHANGED <<mu, srv>>
       ELSE /\ mu' = {t}
            /\ srv' = CloseListener(srv, serverRegistry[p])
            /\ op' = [op EXCEPT ![t] = [kind |-> "stop", port |-> p,
                                        sid |-> serverRegistry[p]]]
            /\ pc' = [pc EXCEPT ![t] = "stopWait"]
            /\ Silent
            /\ UNCHANGED <<req, frames>>
    /\ UNCHANGED <<serverRegistry, routeRegistry, defaultPort, lastServe>>
    /\ UNCHANGED session

\* Shutdown returned nil: every connection was idle before the deadline; both
\* entries are deleted; Unlock
StopShutdownOk(t) ==
    /\ pc[t] = "stopWait"
    /\ ActiveConns(op[t].sid) = {}
    /\ serverRegistry' = [serverRegistry EXCEPT ![op[t].port] = 0]
    /\ routeRegistry' = [routeRegistry EXCEPT ![op[t].port] = <<>>]
    /\ Return(t, NULL)
    /\ mu' = mu \ {t}
    /\ LeaveSettled(t, srv, serverRegistry')
    /\ UNCHANGED <<defaultPort, lastServe>>
    /\ UNCHANGED session

\* Shutdown returned the context's error: a connection was still serving a
\* request when the 5 s deadline passed; the statement returns before the
\* deletes; Unlock
StopShutdownTimeout(t) ==
    /\ pc[t] = "stopWait"
    /\ ActiveConns(op[t].sid) # {}
    /\ Return(t, ErrorObj("error stopping server: context deadline exceeded"))
    /\ Leave(t)
    /\ mu' = mu \ {t}
    /\ UNCHANGED <<serverRegistry, routeRegistry, defaultPort, srv, lastServe>>
    /\ UNCHANGED session

\* the servers after `for port, serverInfo := range serverRegistry`: every
\* registered server is shut down, the error of Shutdown ignored
RECURSIVE ShutdownAll(_, _)
ShutdownAll(sv, ps) ==
    IF ps = {} THEN sv
    ELSE LET p == CHOOSE q \in ps : TRUE
         IN ShutdownAll(CloseListener(sv, serverRegistry[p]), ps \ {p})

\* `stop server`: Lock; the loop, which deletes both entries of each port; Unlock
StopAll(t) ==
    /\ StmtReady(t)
    /\ CanLock
    /\ LET reg == {p \in Ports : serverRegistry[p] # 0}
       IN /\ serverRegistry' = [p \in Ports |-> 0]
          /\ routeRegistry' = [p \in Ports |->
                                 IF p \in reg THEN <<>> ELSE routeRegistry[p]]
          /\ LeaveSettled(t, ShutdownAll(srv, reg), serverRegistry')
    /\ Return(t, NULL)
    /\ UNCHANGED <<defaultPort, mu, lastServe>>
    /\ UNCHANGED session

\* ----------------------------------------------------------- when / route
\* the RouteHandler built by a when statement
WhenHandler(id, method, path, var) ==
    [id |-> id, method |-> method, path |-> path, fn |-> FALSE, var |-> var]

\* the RouteHandler built by a route statement: any method, a function handler
\* whose first parameter, if it has one, receives the request
RouteToHandler(id, path, var) ==
    [id |-> id, method |-> "", path |-> path, fn |-> TRUE, var |-> var]

\* Lock; routeRegistry[defaultPort] = append(routeRegistry[defaultPort], h); Unlock
Register(h) ==
    /\ CanLock
    /\ routeRegistry' = [routeRegistry EXCEPT ![defaultPort] = Append(@, h)]

WhenRoute(t, method, path, var) ==
    /\ StmtReady(t)
    /\ Cardinality(LiveRoutes) < MaxRoutes
    /\ Register(WhenHandler(NewRoute, method, path, var))
    /\ Return(t, NULL)
    /\ Leave(t)
    /\ UNCHANGED <<serverRegistry, defaultPort, mu, srv, lastServe>>
    /\ UNCHANGED session

RouteTo(t, path, var) ==
    /\ StmtReady(t)
    /\ Cardinality(LiveRoutes) < MaxRoutes
    /\ Register(RouteToHandler(NewRoute, path, var))
    /\ Return(t, NULL)
    /\ Leave(t)
    /\ UNCHANGED <<serverRegistry, defaultPort, mu, srv, lastServe>>
    /\ UNCHANGED session

\* the path is not a String, or the handler name is not bound to a function
RouteRejected(t, msg) ==
    /\ StmtReady(t)
    /\ Return(t, ErrorObj(msg))
    /\ Leave(t)
    /\ UNCHANGED <<serverRegistry, routeRegistry, defaultPort, mu, srv, lastServe>>
    /\ UNCHANGED session

\* ------------------------------------------------------ handler goroutines
\* the host server hands a request of a listening server to a handler goroutine
\* (handler goroutines are interchangeable: the lowest idle one takes it)
Accept(t, method, path) ==
    /\ pc[t] = "idle"
    /\ \A u \in Handlers : u < t => pc[u] # "idle"
    /\ \E s \in Servers :
         /\ srv[s].state = "listening"
         /\ req' = [req EXCEPT ![t] = [method |-> method, path |-> path, sid |-> s,
                                        port |-> srv[s].port]]
    /\ pc' = [pc EXCEPT ![t] = "dispatch"]
    /\ Silent
    /\ UNCHANGED <<serverRegistry, routeRegistry, defaultPort, mu, srv, op,
                   frames, lastServe>>
    /\ UNCHANGED session

\* RLock; routes := routeRegistry[port]; RUnlock; then the loop over the
\* snapshot: the first matching route's handler is entered in a new frame that
\* encloses the captured environment, or 404 is written
Dispatch(t) ==
    /\ pc[t] = "dispatch"
    /\ CanRLock
    /\ LET rs == routeRegistry[req[t].port]
           m == FindRoute(rs, req[t], 1)
       IN IF m = 0
          THEN /\ resp' = NotFound
               /\ result' = Nil
               /\ pc' = [pc EXCEPT ![t] = "idle"]
               /\ req' = Done(t)
               /\ UNCHANGED <<op, frames>>
          ELSE /\ op' = [op EXCEPT ![t] = [kind |-> "handler", route |-> rs[m]]]
               /\ pc' = [pc EXCEPT ![t] = "exec"]
               /\ frames' = HandlerScope(frames, t, rs[m].var, RequestObj(req[t]))
               /\ result' = Nil
               /\ resp' = NoResp
               /\ UNCHANGED req
    /\ evaluated' = <<>>
    /\ UNCHANGED <<serverRegistry, routeRegistry, defaultPort, mu, srv, lastServe>>
    /\ UNCHANGED session

\* the handler body ends with value v: that of its last statement, or nothing
\* when the body is empty
PlainHandler(t, v) ==
    /\ pc[t] = "exec"
    /\ Return(t, v)
    /\ Leave(t)
    /\ UNCHANGED <<serverRegistry, routeRegistry, defaultPort, mu, srv, lastServe>>
    /\ UNCHANGED session

\* --------------------------------------------------- evaluator statements
\* Each eval function is given the results its sub-expressions evaluate to and
\* yields its value, the sub-results it obtained in order, and the stores.

evalSetStatement(fr, t, name, val) ==
    IF isError(val)
    THEN [value |-> val, evaluated |-> <<val>>, frames |-> fr]
    ELSE [value |-> val, evaluated |-> <<val>>, frames |-> EnvSet(fr, t, name, val)]

evalIncreaseStatement(fr, t, name, amount) ==
    LET currentVal == EnvGet(fr, t, name)
    IN IF currentVal = Unbound
       THEN [value |-> ErrorObj("undefined variable: " \o name),
             evaluated |-> <<>>, frames |-> fr]
       ELSE IF currentVal.type # "INTEGER"
       THEN [value |-> ErrorObj("increase requires an integer variable, got "
                                \o currentVal.type),
             evaluated |-> <<>>, frames |-> fr]
       ELSE IF isError(amount)
       THEN [value |-> amount, evaluated |-> <<amount>>, frames |-> fr]
       ELSE IF amount.type # "INTEGER"
       THEN [value |-> ErrorObj("increase amount must be an integer, got "
                                \o amount.type),
             evaluated |-> <<amount>>, frames |-> fr]
       ELSE LET res == IntegerObj(currentVal.value + amount.value)
            IN [value |-> res, evaluated |-> <<amount>>,
                frames |-> EnvSet(fr, t, name, res)]

evalDecreaseStatement(fr, t, name, amount) ==
    LET currentVal == EnvGet(fr, t, name)
    IN IF currentVal = Unbound
       THEN [value |-> ErrorObj("undefined variable: " \o name),
             evaluated |-> <<>>, frames |-> fr]
       ELSE IF currentVal.type # "INTEGER"
       THEN [value |-> ErrorObj("decrease requires an integer variable, got "
                                \o currentVal.type),
             evaluated |-> <<>>, frames |-> fr]
       ELSE IF isError(amount)
       THEN [value |-> amount, evaluated |-> <<amount>>, frames |-> fr]
       ELSE IF amount.type # "INTEGER"
       THEN [value |-> ErrorObj("decrease amount must be an integer, got "
                                \o amount.type),
             evaluated |-> <<amount>>, frames |-> fr]
       ELSE LET res == IntegerObj(currentVal.value - amount.value)
            IN [value |-> res, evaluated |-> <<amount>>,
                frames |-> EnvSet(fr, t, name, res)]

\* the string operand of a concatenation
Operand(v) == IF v.type = "STRING" THEN v.value ELSE Inspect(v)

\* Go's integer division truncates toward zero
Quotient(a, b) ==
    IF (a >= 0) = (b >= 0)
    THEN (IF a >= 0 THEN a ELSE -a) \div (IF b >= 0 THEN b ELSE -b)
    ELSE -((IF a >= 0 THEN a ELSE -a) \div (IF b >= 0 THEN b ELSE -b))

evalArithmeticExpression(left, operator, right) ==
    IF isError(left) THEN [value |-> left, evaluated |-> <<left>>]
    ELSE IF isError(right) THEN [value |-> right, evaluated |-> <<left, right>>]
    ELSE [evaluated |-> <<left, right>>,
          value |->
            IF operator = "plus" /\ (left.type = "STRING" \/ right.type = "STRING")
            THEN StringObj(Operand(left) \o Operand(right))
            ELSE IF left.type # "INTEGER"
            THEN ErrorObj("arithmetic operations require integers, got " \o left.type)
            ELSE IF right.type # "INTEGER"
            THEN ErrorObj("arithmetic operations require integers, got " \o right.type)
            ELSE CASE operator = "plus" -> IntegerObj(left.value + right.value)
                   [] operator = "minus" -> IntegerObj(left.value - right.value)
                   [] operator = "times" -> IntegerObj(left.value * right.value)
                   [] operator = "divided" ->
                        IF right.value = 0 THEN ErrorObj("division by zero")
                        ELSE IntegerObj(Quotient(left.value, right.value))]

\* json.Marshal(objectToInterface(obj)) of a scalar
JsonMarshal(obj) ==
    CASE obj.type = "INTEGER" -> FormatInt(obj.value)
      [] obj.type = "STRING" -> Quote(obj.value)
      [] obj.type = "BOOLEAN" -> FormatBool(obj.value)
      [] OTHER -> "null"

\* headers[name] = value
SetHeader(headers, name, value) ==
    [k \in DOMAIN headers \cup {name} |-> IF k = name THEN value ELSE headers[k]]

\* `for _, hp := range node.Headers`: name and value are evaluated, and the pair
\* is stored when both are Strings
RECURSIVE ProcessHeaders(_, _, _, _)
ProcessHeaders(hps, i, headers, tr) ==
    IF i > Len(hps) THEN [headers |-> headers, evaluated |-> tr]
    ELSE LET nameObj == hps[i].name
             valueObj == hps[i].value
         IN ProcessHeaders(hps, i + 1,
                IF nameObj.type = "STRING" /\ valueObj.type = "STRING"
                THEN SetHeader(headers, nameObj.value, valueObj.value)
                ELSE headers,
                tr \o <<nameObj, valueObj>>)

\* node: body, asJson, status (Nil when the statement names none), headers
evalReplyStatement(node) ==
    IF isError(node.body)
    THEN [value |-> node.body, evaluated |-> <<node.body>>]
    ELSE LET bodyStr == IF node.asJson THEN JsonMarshal(node.body)
                        ELSE Operand(node.body)
             headers0 == IF node.asJson
                         THEN SetHeader(EmptyMap, "Content-Type", "application/json")
                         ELSE EmptyMap
             tr1 == IF node.status # Nil THEN <<node.body, node.status>>
                    ELSE <<node.body>>
         IN IF node.status # Nil /\ isError(node.status)
            THEN [value |-> node.status, evaluated |-> tr1]
            ELSE LET statusCode == IF node.status # Nil /\ node.status.type = "INTEGER"
                                   THEN node.status.value ELSE StatusOK
                     h == ProcessHeaders(node.headers, 1, headers0, tr1)
                 IN [value |-> ReplyValue(bodyStr, statusCode, h.headers),
                     evaluated |-> h.evaluated]

SetStmt(t, name, val) ==
    /\ StmtReady(t)
    /\ LET r == evalSetStatement(frames, t, name, val)
       IN Yield(t, r.value, r.evaluated, r.frames)
    /\ UNCHANGED <<serverRegistry, routeRegistry, defaultPort, mu, srv, lastServe>>
    /\ UNCHANGED session

InRange(v) == v.type = "INTEGER" => v.value \in 0..MaxInt

IncreaseStmt(t, name, amount) ==
    /\ StmtReady(t)
    /\ LET r == evalIncreaseStatement(frames, t, name, amount)
       IN /\ InRange(r.value)
          /\ Yield(t, r.value, r.evaluated, r.frames)
    /\ UNCHANGED <<serverRegistry, routeRegistry, defaultPort, mu, srv, lastServe>>
    /\ UNCHANGED session

DecreaseStmt(t, name, amount) ==
    /\ StmtReady(t)
    /\ LET r == evalDecreaseStatement(frames, t, name, amount)
       IN /\ InRange(r.value)
          /\ Yield(t, r.value, r.evaluated, r.frames)
    /\ UNCHANGED <<serverRegistry, routeRegistry, defaultPort, mu, srv, lastServe>>
    /\ UNCHANGED session

\* an expression statement whose expression is arithmetic
ArithStmt(t, left, operator, right) ==
    /\ StmtReady(t)
    /\ LET r == evalArithmeticExpression(left, operator, right)
       IN Yield(t, r.value, r.evaluated, frames)
    /\ UNCHANGED <<serverRegistry, routeRegistry, defaultPort, mu, srv, lastServe>>
    /\ UNCHANGED session

ReplyStmt(t, node) ==
    /\ StmtReady(t)
    /\ LET r == evalReplyStatement(node)
       IN Yield(t, r.value, r.evaluated, frames)
    /\ UNCHANGED <<serverRegistry, routeRegistry, defaultPort, mu, srv, lastServe>>
    /\ UNCHANGED session

\* ---------------------------------------------------------- specifications
\* no server, no route, no statement under way
NoServer ==
    /\ serverRegistry = [p \in Ports |-> 0]
    /\ routeRegistry = [p \in Ports |-> <<>>]
    /\ defaultPort = InitialDefaultPort
    /\ mu = {}
    /\ srv = [s \in Servers |-> Unreachable]
    /\ pc = [t \in Tasks |-> "idle"]
    /\ op = [t \in Tasks |-> NoOp]
    /\ req = [t \in Handlers |-> NoReq]
    /\ frames = [t \in Tasks |-> NoBindings]
    /\ result = Nil
    /\ resp = NoResp
    /\ evaluated = <<>>
    /\ lastServe = [passed |-> InitialDefaultPort, registered |-> InitialDefaultPort]

\* the interpreter after start-up
Init == NoServer /\ InitSession

\* The evaluator and the handler goroutines run registry statements
\* concurrently; handler bodies end with the statement or with a reply.
Next ==
    \/ \E t \in Tasks :
         \/ \E p \in Ports, b \in BOOLEAN : ServeCheck(t, p, b)
         \/ ServeRegister(t)
         \/ ServeFgReturn(t)
         \/ \E p \in Ports : StopBegin(t, p)
         \/ StopShutdownOk(t)
         \/ StopShutdownTimeout(t)
         \/ StopAll(t)
         \/ WhenRoute(t, "", "/", "req")
    \/ \E t \in Handlers :
         \/ Accept(t, "GET", "/")
         \/ Dispatch(t)
         \/ PlainHandler(t, ReplyValue("OK", StatusOK, EmptyMap))
    \/ \E s \in Servers :
         \/ ListenOk(s)
         \/ ListenFail(s)
         \/ BgExit(s)

Spec == Init /\ [][Next]_vars

\* The evaluator alone: every sequence of serve / when / route / stop server
\* statements of a program or a REPL session, no request arriving.
NextMain ==
    \/ ServeBadPort(Main)
    \/ \E p \in Ports, b \in BOOLEAN : ServeCheck(Main, p, b)
    \/ ServeRegister(Main)
    \/ ServeFgReturn(Main)
    \/ StopBadPort(Main)
    \/ \E p \in Ports : StopBegin(Main, p)
    \/ StopShutdownOk(Main)
    \/ StopAll(Main)
    \/ \E m \in {"", "GET"} : WhenRoute(Main, m, "/", "req")
    \/ RouteTo(Main, "/", "req")
    \/ \E msg \in {"route path must be a string, got INTEGER",
                   "handler function not defined: h"} : RouteRejected(Main, msg)
    \/ \E s \in Servers :
         \/ ListenOk(s)
         \/ ListenFail(s)
         \/ BgExit(s)

SpecMain == Init /\ [][NextMain]_vars

\* Tables a program can have built before it serves: when and route
\* statements in any order, ids in order of registration
RouteChoices ==
    {WhenHandler(0, m, p, v) : m \in RouteMethods, p \in Paths, v \in {"", "req"}}
      \cup {RouteToHandler(0, p, "req") : p \in Paths}

Tables ==
    UNION {{[i \in 1..n |-> [f[i] EXCEPT !.id = i]] : f \in [1..n -> RouteChoices]} :
           n \in 0..MaxTable}

\* the interpreter after `set x to 0`, the when / route statements of a table
\* and a foreground `serve on 8080` whose listener is bound
InitServing ==
    /\ serverRegistry = [p \in Ports |-> IF p = InitialDefaultPort THEN 1 ELSE 0]
    /\ routeRegistry \in {[p \in Ports |-> IF p = InitialDefaultPort THEN tb ELSE <<>>] :
                          tb \in Tables}
    /\ defaultPort = InitialDefaultPort
    /\ mu = {}
    /\ srv = [s \in Servers |->
                IF s = 1 THEN [port |-> InitialDefaultPort, state |-> "listening",
                               running |-> TRUE, g |-> "fg"]
                ELSE Unreachable]
    /\ pc = [t \in Tasks |-> IF t = Main THEN "serveFg" ELSE "idle"]
    /\ op = [t \in Tasks |->
               IF t = Main THEN [kind |-> "serve", port |-> InitialDefaultPort,
                                 bg |-> FALSE, sid |-> 1]
               ELSE NoOp]
    /\ req = [t \in Handlers |-> NoReq]
    /\ frames = [t \in Tasks |->
                   IF t = Main THEN [NoBindings EXCEPT !["x"] = IntegerObj(0)]
                   ELSE NoBindings]
    /\ result = Nil
    /\ resp = NoResp
    /\ evaluated = <<>>
    /\ lastServe = [passed |-> InitialDefaultPort, registered |-> InitialDefaultPort]
    /\ InitSession

ReturnValueObj(v) == [type |-> "RETURN_VALUE", value |-> v]

\* values a handler body can end with
HandlerResults ==
    {ReplyValue("OK", StatusOK, EmptyMap),
     ReplyValue("no", StatusNotFound, SetHeader(EmptyMap, "X-A", "b")),
     ReturnValueObj(ReplyValue("OK", StatusOK, EmptyMap)),
     ReturnValueObj(IntegerObj(MaxInt)),
     NULL, Nil, IntegerObj(0), StringObj("a"), BooleanObj(TRUE),
     ErrorObj("division by zero")}

\* Requests arrive at a serving program whose handler bodies bind variables.
NextHandlers ==
    \E t \in Handlers :
       \/ \E m \in RequestMethods, p \in Paths : Accept(t, m, p)
       \/ Dispatch(t)
       \/ \E n \in Names, v \in 1..MaxInt : SetStmt(t, n, IntegerObj(v))
       \/ \E n \in Names : IncreaseStmt(t, n, IntegerObj(1))
       \/ \E n \in Names : DecreaseStmt(t, n, IntegerObj(1))
       \/ \E v \in HandlerResults : PlainHandler(t, v)

SpecHandlers == InitServing /\ [][NextHandlers]_vars

\* results a sub-expression can evaluate to
SubResults == {StringObj("a"), IntegerObj(1), ErrorObj("undefined variable: u")}

HeaderLists ==
    UNION {[1..n -> [name : SubResults, value : SubResults]] : n \in 0..MaxHeaders}

ReplyNodes ==
    [body : SubResults, asJson : BOOLEAN, status : SubResults \cup {Nil},
     headers : HeaderLists]

\* The evaluator runs statements whose sub-expressions may fail.
NextEval ==
    \/ \E n \in Names, v \in SubResults : SetStmt(Main, n, v)
    \/ \E n \in Names, v \in SubResults : IncreaseStmt(Main, n, v)
    \/ \E n \in Names, v \in SubResults : DecreaseStmt(Main, n, v)
    \/ \E l \in SubResults, r \in SubResults,
          o \in {"plus", "minus", "times", "divided"} : ArithStmt(Main, l, o, r)
    \/ \E node \in ReplyNodes : ReplyStmt(Main, node)

SpecEval == Init /\ [][NextEval]_vars

\* ------------------------------------------------------------- properties

\* C1: at most one server is registered per port: whatever the interleaving
\* of serve statements, a step never replaces the entry of a port that has a
\* registered server by another server (the later serve returns an error and
\* leaves the entry as it is).
C1_RegisteredEntryUnchanged ==
    [][\A p \in Ports :
          (serverRegistry[p] # 0 /\ serverRegistry'[p] # 0)
             => serverRegistry'[p] = serverRegistry[p]]_vars

\* C2: dispatch on a port walks the port's table in order and enters the
\* handler of the first route whose method is empty or the request's and whose
\* path is the request's; no route matching, it writes 404 `Not Found` and
\* enters no handler; the handler entered is the only one run for the request.
C2_FirstMatchWins ==
    /\ [][\A t \in Handlers :
            (pc[t] = "dispatch" /\ pc'[t] # "dispatch") =>
               LET rs == routeRegistry[req[t].port]
                   M == {i \in DOMAIN rs :
                           /\ rs[i].method = "" \/ rs[i].method = req[t].method
                           /\ rs[i].path = req[t].path}
               IN IF M = {}
                  THEN pc'[t] = "idle" /\ resp' = [status |-> 404, body |-> "Not Found",
                                                   headers |-> EmptyMap]
                  ELSE /\ pc'[t] = "exec"
                       /\ resp' = NoResp
                       /\ \E i \in M : /\ \A j \in M : i <= j
                                       /\ op'[t] = [kind |-> "handler", route |-> rs[i]]]_vars
    /\ [][\A t \in Handlers :
            pc[t] = "exec" =>
               \/ pc'[t] = "exec" /\ op'[t] = op[t] /\ req'[t] = req[t]
               \/ pc'[t] = "idle" /\ req'[t] = NoReq /\ resp' # NoResp]_vars

\* a request that the first route of its table does not match is being handled
\* by the second
C2_SecondRouteEntered ==
    \E t \in Handlers :
       /\ pc[t] = "exec"
       /\ Len(routeRegistry[req[t].port]) = 2
       /\ op[t].route = routeRegistry[req[t].port][2]
       /\ routeRegistry[req[t].port][1].path = req[t].path
       /\ routeRegistry[req[t].port][1].method \notin {"", req[t].method}

\* C3: when `stop server on P` has run for a port with a registered server,
\* from the main program or from a handler, neither registry has an entry for
\* P; when `stop server` has run, the server registry is empty and every
\* server that was registered has stopped listening.
C3_StopRemovesEntries ==
    /\ [][\A t \in Tasks :
            (pc[t] = "stopWait" /\ pc'[t] # "stopWait") =>
               /\ serverRegistry'[op[t].port] = 0
               /\ routeRegistry'[op[t].port] = <<>>]_vars
    /\ [][\A t \in Tasks :
            StopAll(t) =>
               /\ \A p \in Ports : serverRegistry'[p] = 0
               /\ \A p \in Ports : serverRegistry[p] # 0 =>
                                      srv[serverRegistry[p]].state # "listening"
                                         \/ srv'[serverRegistry[p]].state # "listening"]_vars

\* C4: after any sequence of serve / when / route / stop server statements no
\* route occurs more than once in the table of a port (routes are carried
\* over to a port once).
C4_NoRouteTwice ==
    \A p \in Ports :
       \A i \in DOMAIN routeRegistry[p], j \in DOMAIN routeRegistry[p] :
          i # j => routeRegistry[p][i].id # routeRegistry[p][j].id

C6_ResponseFromResult ==
    (resp # NoResp /\ ~(resp = NotFound /\ result = Nil)) =>
       LET v == IF result.type = "RETURN_VALUE" THEN result.value ELSE result
       IN IF v.type = "REPLY_VALUE"
          THEN resp = [status |-> v.status, body |-> v.body, headers |-> v.headers]
          ELSE /\ resp.status = 200
               /\ resp.headers = EmptyMap
               /\ resp.body = IF v.type \in {"NULL", "nil"} THEN "" ELSE Inspect(v)

\* C7: a handler invocation runs in a new child frame of the captured
\* environment: the frame starts with the request variable alone, the names
\* the body sets, increases or decreases are bound in it only, the captured
\* environment keeps its bindings throughout, and the frame is gone when the
\* request is done, so no later request sees it.
C7_HandlerFrameIsFresh ==
    /\ [](frames[Main] = [NoBindings EXCEPT !["x"] = IntegerObj(0)])
    /\ [](\A t \in Handlers : pc[t] # "exec" => frames[t] = NoBindings)
    /\ [][\A t \in Handlers :
            (pc[t] = "dispatch" /\ pc'[t] = "exec") =>
               \A n \in Names :
                  frames'[t][n] = IF n = op'[t].route.var
                                  THEN [type |-> "REQUEST", method |-> req[t].method,
                                        path |-> req[t].path]
                                  ELSE Unbound]_vars

\* a handler body has bound x in its frame to another value than the captured
\* environment's x, next to the request variable
C7_HandlerBoundItsOwn ==
    \E t \in Handlers :
       /\ pc[t] = "exec"
       /\ frames[t]["req"].type = "REQUEST"
       /\ frames[t]["x"] = IntegerObj(MaxInt)
       /\ frames[Main]["x"] = IntegerObj(0)

\* C8: a foreground serve blocks the task that runs it: the task goes on only
\* when the listener has stopped. A background serve returns a Server value
\* at once, its listener still to be started.
C8_ForegroundBlocksBackgroundReturns ==
    /\ [][\A t \in Tasks :
            (pc[t] = "serveLock2" /\ pc'[t] # "serveLock2") =>
               IF op[t].bg
               THEN /\ pc'[t] = "idle"
                    /\ result' = [type |-> "SERVER", port |-> op[t].port,
                                  running |-> TRUE]
                    /\ srv'[op[t].sid].state = "new"
               ELSE pc'[t] = "serveFg"]_vars
    /\ [][\A t \in Tasks :
            (pc[t] = "serveFg" /\ pc'[t] # "serveFg") =>
               srv[op[t].sid].state \notin {"new", "listening"}]_vars

\* the evaluator is blocked in a foreground serve whose listener runs, next to
\* a server started in the background that listens as well
C8_BlockedWhileListening ==
    /\ pc[Main] = "serveFg"
    /\ srv[op[Main].sid].state = "listening"
    /\ \E s \in Servers : srv[s].g = "run" /\ srv[s].state = "listening"

\* C9: the registries and the default port change only in a step that holds
\* the registry lock in write mode, there is one writer at most, and dispatch
\* reads the route table only while no writer is inside its critical section.
C9_RegistryUnderLock ==
    /\ [](Cardinality(mu) <= 1)
    /\ [][(serverRegistry' # serverRegistry \/ routeRegistry' # routeRegistry
             \/ defaultPort' # defaultPort) =>
            \/ mu = {} /\ mu' = {}
            \/ \E t \in mu : pc[t] = "stopWait" /\ pc'[t] = "idle" /\ mu' = {}]_vars
    /\ [][\A t \in Handlers :
            (pc[t] = "dispatch" /\ pc'[t] # "dispatch") => mu = {}]_vars

\* a request waits to read its table while stop server holds the lock and
\* waits for the server's connections
C9_ReaderWaitsForWriter ==
    /\ mu # {}
    /\ \E t \in Handlers : pc[t] = "dispatch" /\ routeRegistry[req[t].port] # <<>>

\* C10: when a sub-expression of a node evaluates to an Error, the node
\* returns that Error at once: it evaluates no later sub-expression, binds
\* nothing and builds no value; so for body, status, header names and header
\* values of reply as for the other nodes.
C10_ErrorReturnedAtOnce ==
    /\ [](\A i \in DOMAIN evaluated :
             isError(evaluated[i]) => i = Len(evaluated) /\ result = evaluated[i])
    /\ [][(\E i \in DOMAIN evaluated' : isError(evaluated'[i])) => frames' = frames]_vars

\* ---------------------------------------------------------------------
\* Tokens.  A source line is the sequence of its lexemes (whitespace and
\* comments are skipped by the lexer); every lexeme becomes one token.
\* ---------------------------------------------------------------------

\* the reserved words of the core language and their token kinds
KeywordKinds ==
    [set |-> "SET", to |-> "TO", plus |-> "PLUS", minus |-> "MINUS",
     times |-> "TIMES", divided |-> "DIVIDED", by |-> "BY",
     increase |-> "INCREASE", decrease |-> "DECREASE", if |-> "IF",
     then |-> "THEN", otherwise |-> "OTHERWISE", equals |-> "EQUALS",
     is |-> "IS", greater |-> "GREATER", less |-> "LESS", than |-> "THAN",
     and |-> "AND", or |-> "OR", not |-> "NOT", while |-> "WHILE",
     do |-> "DO", for |-> "FOR", each |-> "EACH", in |-> "IN",
     done |-> "DONE", return |-> "RETURN", call |-> "CALL", with |-> "WITH",
     say |-> "SAY", ask |-> "ASK", a |-> "A", list |-> "LIST", of |-> "OF",
     length |-> "LENGTH", append |-> "APPEND", item |-> "ITEM",
     from |-> "FROM", into |-> "INTO", parse |-> "PARSE", encode |-> "ENCODE",
     as |-> "AS", json |-> "JSON",
     reply |-> "REPLY", status |-> "STATUS", header |-> "HEADER",
     fetch |-> "FETCH",
     zero |-> "ZERO", one |-> "ONE", two |-> "TWO", three |-> "THREE",
     four |-> "FOUR", five |-> "FIVE", six |-> "SIX", seven |-> "SEVEN",
     eight |-> "EIGHT", nine |-> "NINE", ten |-> "TEN", eleven |-> "ELEVEN",
     twelve |-> "TWELVE", thirteen |-> "THIRTEEN", fourteen |-> "FOURTEEN",
     fifteen |-> "FIFTEEN", sixteen |-> "SIXTEEN", seventeen |-> "SEVENTEEN",
     eighteen |-> "EIGHTEEN", nineteen |-> "NINETEEN", twenty |-> "TWENTY",
     thirty |-> "THIRTY", forty |-> "FORTY", fifty |-> "FIFTY",
     sixty |-> "SIXTY", seventy |-> "SEVENTY", eighty |-> "EIGHTY",
     ninety |-> "NINETY", hundred |-> "HUNDRED", thousand |-> "THOUSAND",
     million |-> "MILLION"]

\* token.NumberWordValue for the number words of KeywordKinds
NumberWordValues ==
    [ZERO |-> 0, ONE |-> 1, TWO |-> 2, THREE |-> 3, FOUR |-> 4, FIVE |-> 5,
     SIX |-> 6, SEVEN |-> 7, EIGHT |-> 8, NINE |-> 9, TEN |-> 10,
     ELEVEN |-> 11, TWELVE |-> 12, THIRTEEN |-> 13, FOURTEEN |-> 14,
     FIFTEEN |-> 15, SIXTEEN |-> 16, SEVENTEEN |-> 17, EIGHTEEN |-> 18,
     NINETEEN |-> 19, TWENTY |-> 20, THIRTY |-> 30, FORTY |-> 40,
     FIFTY |-> 50, SIXTY |-> 60, SEVENTY |-> 70, EIGHTY |-> 80,
     NINETY |-> 90, HUNDRED |-> 100, THOUSAND |-> 1000, MILLION |-> 1000000]

IsNumberWord(t) == t \in DOMAIN NumberWordValues
NumberWordValue(t) == NumberWordValues[t]
IsMultiplier(t) == t \in {"HUNDRED", "THOUSAND", "MILLION"}

Token(type, literal) == [type |-> type, literal |-> literal]
EOF == Token("EOF", "")

DigitChars == "0123456789"
IsDigit(c) == \E i \in 1..10 : SubSeq(DigitChars, i, i) = c
DigitValue(c) == (CHOOSE i \in 1..10 : SubSeq(DigitChars, i, i) = c) - 1

\* lexer.NextToken on one lexeme
LookupIdent(w) ==
    IF w \in DOMAIN KeywordKinds THEN KeywordKinds[w] ELSE "IDENT"

NextToken(w) ==
    IF SubSeq(w, 1, 1) = "\"" THEN Token("STRING", SubSeq(w, 2, Len(w) - 1))
    ELSE IF IsDigit(SubSeq(w, 1, 1)) THEN Token("NUMBER", w)
    ELSE Token(LookupIdent(w), w)

Lex(words) == [i \in 1..Len(words) |-> NextToken(words[i])]

\* strconv.ParseInt(s, 10, 64) of a digit string
RECURSIVE ParseInt(_)
ParseInt(s) ==
    IF Len(s) = 0 THEN 0
    ELSE 10 * ParseInt(SubSeq(s, 1, Len(s) - 1)) + DigitValue(SubSeq(s, Len(s), Len(s)))

\* ---------------------------------------------------------------------
\* Parser: curToken = toks[pos], peekToken = toks[pos + 1]; the lexer
\* answers EOF past the end.  Every production returns the node and the
\* parser after it.
\* ---------------------------------------------------------------------

\* the untyped nil of Go is Nil; a nil pointer returned through an
\* interface (a production that failed) is not equal to nil
NilPtr(kind) == [type |-> "nilptr", of |-> kind]

New(toks) == [toks |-> toks, pos |-> 1, errors |-> <<>>]

TokenAt(p, i) == IF i <= Len(p.toks) THEN p.toks[i] ELSE EOF
curToken(p) == TokenAt(p, p.pos)
peekToken(p) == TokenAt(p, p.pos + 1)
nextToken(p) == [p EXCEPT !.pos = @ + 1]
curTokenIs(p, t) == curToken(p).type = t
peekTokenIs(p, t) == peekToken(p).type = t

peekError(p, t) ==
    [p EXCEPT !.errors = Append(@, "expected next token to be " \o t \o ", got "
                                    \o peekToken(p).type \o " instead")]

expectPeek(p, t) ==
    IF peekTokenIs(p, t) THEN [ok |-> TRUE, p |-> nextToken(p)]
    ELSE [ok |-> FALSE, p |-> peekError(p, t)]

Parsed(n, p) == [n |-> n, p |-> p]

Identifier(tok) == [type |-> "Identifier", value |-> tok.literal]

\* every production is entered through parse, which selects it by name
RECURSIVE parse(_, _)

\* a fold that adds every word's value, multipliers included
AddWord(t, total, current) ==
    [total |-> total, current |-> current + NumberWordValue(t)]

\* one iteration of the loop of parseCompoundNumber on a number word t
FoldWord(t, total, current) ==
    LET wordValue == NumberWordValue(t)
        cur1 == IF IsMultiplier(t) /\ current = 0 THEN 1 ELSE current
    IN IF t \in {"MILLION", "THOUSAND"}
       THEN [total |-> total + cur1 * wordValue, current |-> 0]
       ELSE IF t = "HUNDRED" THEN [total |-> total, current |-> cur1 * wordValue]
       ELSE [total |-> total, current |-> current + wordValue]

\* the loop of parseCompoundNumber
RECURSIVE parseCompoundNumber(_, _, _)
parseCompoundNumber(p, total, current) ==
    IF ~IsNumberWord(curToken(p).type) THEN [value |-> total + current, p |-> p]
    ELSE LET f == FoldWord(curToken(p).type, total, current)
         IN IF ~IsNumberWord(peekToken(p).type)
            THEN [value |-> f.total + f.current, p |-> p]
            ELSE parseCompoundNumber(nextToken(p), f.total, f.current)

parseNumberWord(p) ==
    LET r == parseCompoundNumber(p, 0, 0)
    IN Parsed([type |-> "IntegerLiteral", value |-> r.value], r.p)

\* the "and" loop of parseCallExpression and parseListLiteral
RECURSIVE parseMore(_, _)
parseMore(items, p) ==
    IF peekTokenIs(p, "AND")
    THEN LET r == parse("Primary", nextToken(nextToken(p)))
         IN parseMore(Append(items, r.n), r.p)
    ELSE [items |-> items, p |-> p]

\* each argument is one primary expression
parseCallExpression(fn, p) ==
    LET first == parse("Primary", nextToken(nextToken(p)))
        rest == parseMore(<<first.n>>, first.p)
    IN Parsed([type |-> "CallExpression", function |-> fn, arguments |-> rest.items],
              rest.p)

parseListLiteral(p) ==
    LET e1 == expectPeek(p, "LIST")
        e2 == expectPeek(e1.p, "OF")
        first == parse("Primary", nextToken(e2.p))
        rest == parseMore(<<first.n>>, first.p)
    IN IF ~e1.ok THEN Parsed(NilPtr("ListLiteral"), e1.p)
       ELSE IF ~e2.ok THEN Parsed(NilPtr("ListLiteral"), e2.p)
       ELSE Parsed([type |-> "ListLiteral", elements |-> rest.items], rest.p)

parseLengthExpression(p) ==
    LET r == parse("Primary", nextToken(nextToken(p)))
    IN Parsed([type |-> "LengthExpression", list |-> r.n], r.p)

parseIndexExpression(p) ==
    LET index == parse("Primary", nextToken(p))
        e == expectPeek(index.p, "FROM")
        list == parse("Primary", nextToken(e.p))
    IN IF ~e.ok THEN Parsed(NilPtr("IndexExpression"), e.p)
       ELSE Parsed([type |-> "IndexExpression", index |-> index.n, list |-> list.n],
                   list.p)

parsePrimary(p) ==
    IF curTokenIs(p, "MINUS")
    THEN LET r == parse("Primary", nextToken(p))
         IN Parsed([type |-> "NegativeExpression", value |-> r.n], r.p)
    ELSE IF curTokenIs(p, "STRING")
    THEN Parsed([type |-> "StringLiteral", value |-> curToken(p).literal], p)
    ELSE IF curTokenIs(p, "A") /\ peekTokenIs(p, "LIST") THEN parseListLiteral(p)
    ELSE IF curTokenIs(p, "LENGTH") /\ peekTokenIs(p, "OF") THEN parseLengthExpression(p)
    ELSE IF curTokenIs(p, "ITEM") THEN parseIndexExpression(p)
    ELSE IF IsNumberWord(curToken(p).type) THEN parseNumberWord(p)
    ELSE IF curTokenIs(p, "NUMBER")
    THEN Parsed([type |-> "IntegerLiteral", value |-> ParseInt(curToken(p).literal)], p)
    ELSE IF curTokenIs(p, "IDENT")
    THEN IF peekTokenIs(p, "WITH") THEN parseCallExpression(Identifier(curToken(p)), p)
         ELSE Parsed(Identifier(curToken(p)), p)
    ELSE Parsed(Nil, p)

Arithmetic(left, oper, right) ==
    [type |-> "ArithmeticExpression", left |-> left, operator |-> oper, right |-> right]

\* the loop of parseTerm
RECURSIVE parseTermRest(_, _)
parseTermRest(left, p) ==
    IF peekTokenIs(p, "TIMES") \/ peekTokenIs(p, "DIVIDED")
    THEN LET p1 == nextToken(p)
             oper == curToken(p1).literal
             e == IF oper = "divided" THEN expectPeek(p1, "BY") ELSE [ok |-> TRUE, p |-> p1]
             right == parse("Primary", nextToken(e.p))
         IN IF ~e.ok THEN Parsed(Nil, e.p)
            ELSE parseTermRest(Arithmetic(left, oper, right.n), right.p)
    ELSE Parsed(left, p)

parseTerm(p) ==
    LET left == parse("Primary", p) IN parseTermRest(left.n, left.p)

\* the loop of parseArithmeticExpression
RECURSIVE parseArithmeticRest(_, _)
parseArithmeticRest(left, p) ==
    IF peekTokenIs(p, "PLUS") \/ peekTokenIs(p, "MINUS")
    THEN LET p1 == nextToken(p)
             oper == curToken(p1).literal
             right == parse("Term", nextToken(p1))
         IN parseArithmeticRest(Arithmetic(left, oper, right.n), right.p)
    ELSE Parsed(left, p)

parseArithmeticExpression(p) ==
    LET left == parse("Term", p) IN parseArithmeticRest(left.n, left.p)


parseExpression(p) == parse("ArithmeticExpression", p)

Comparison(left, oper, right) ==
    [type |-> "ComparisonExpression", left |-> left, operator |-> oper, right |-> right]

Logical(left, oper, right) ==
    [type |-> "LogicalExpression", left |-> left, operator |-> oper, right |-> right]

\* "is greater than" / "is less than", the parser standing on IS
parseOrdering(left, p, kind, oper) ==
    LET e == expectPeek(nextToken(p), "THAN")
        right == parse("ArithmeticExpression", nextToken(e.p))
    IN IF ~e.ok THEN Parsed(Nil, e.p)
       ELSE Parsed(Comparison(left, oper, right.n), right.p)

parseComparison(p) ==
    LET left == parse("ArithmeticExpression", p)
        p1 == nextToken(left.p)
    IN IF peekTokenIs(left.p, "EQUALS")
       THEN LET right == parse("ArithmeticExpression", nextToken(p1))
            IN Parsed(Comparison(left.n, "equals", right.n), right.p)
       ELSE IF peekTokenIs(left.p, "IS")
       THEN IF peekTokenIs(p1, "GREATER") THEN parseOrdering(left.n, p1, "GREATER", "greater")
            ELSE IF peekTokenIs(p1, "LESS") THEN parseOrdering(left.n, p1, "LESS", "less")
            ELSE Parsed(left.n, p1)
       ELSE left

parseLogicalNot(p) ==
    IF curTokenIs(p, "NOT")
    THEN LET right == parse("LogicalNot", nextToken(p))
         IN Parsed(Logical(Nil, "not", right.n), right.p)
    ELSE parse("Comparison", p)

\* the loop of parseLogicalAnd
RECURSIVE parseLogicalAndRest(_, _)
parseLogicalAndRest(left, p) ==
    IF peekTokenIs(p, "AND")
    THEN LET right == parse("LogicalNot", nextToken(nextToken(p)))
         IN parseLogicalAndRest(Logical(left, "and", right.n), right.p)
    ELSE Parsed(left, p)

parseLogicalAnd(p) ==
    LET left == parse("LogicalNot", p) IN parseLogicalAndRest(left.n, left.p)

\* the loop of parseLogicalOr
RECURSIVE parseLogicalOrRest(_, _)
parseLogicalOrRest(left, p) ==
    IF peekTokenIs(p, "OR")
    THEN LET right == parse("LogicalAnd", nextToken(nextToken(p)))
         IN parseLogicalOrRest(Logical(left, "or", right.n), right.p)
    ELSE Parsed(left, p)

parseLogicalOr(p) ==
    LET left == parse("LogicalAnd", p) IN parseLogicalOrRest(left.n, left.p)

parseCondition(p) == parse("LogicalOr", p)

parseSetStatement(p) ==
    LET e1 == expectPeek(p, "IDENT")
        e2 == expectPeek(e1.p, "TO")
        value == parse("Expression", nextToken(e2.p))
    IN IF ~e1.ok THEN Parsed(NilPtr("SetStatement"), e1.p)
       ELSE IF ~e2.ok THEN Parsed(NilPtr("SetStatement"), e2.p)
       ELSE Parsed([type |-> "SetStatement", name |-> curToken(e1.p).literal,
                    value |-> value.n], value.p)

\* increase x by E / decrease x by E
parseStep(p, kind) ==
    LET e1 == expectPeek(p, "IDENT")
        e2 == expectPeek(e1.p, "BY")
        amount == parse("Expression", nextToken(e2.p))
    IN IF ~e1.ok THEN Parsed(NilPtr(kind), e1.p)
       ELSE IF ~e2.ok THEN Parsed(NilPtr(kind), e2.p)
       ELSE Parsed([type |-> kind, target |-> curToken(e1.p).literal,
                    amount |-> amount.n], amount.p)

parseIncreaseStatement(p) == parseStep(p, "IncreaseStatement")
parseDecreaseStatement(p) == parseStep(p, "DecreaseStatement")

parseIfStatement(p) ==
    LET condition == parse("Condition", nextToken(p))
        e == expectPeek(condition.p, "THEN")
        consequence == parse("BlockStatement", nextToken(e.p))
        alternative == parse("BlockStatement", nextToken(nextToken(consequence.p)))
    IN IF ~e.ok THEN Parsed(NilPtr("IfStatement"), e.p)
       ELSE IF peekTokenIs(consequence.p, "OTHERWISE")
       THEN Parsed([type |-> "IfStatement", condition |-> condition.n,
                    consequence |-> consequence.n, alternative |-> alternative.n],
                   alternative.p)
       ELSE Parsed([type |-> "IfStatement", condition |-> condition.n,
                    consequence |-> consequence.n, alternative |-> Nil],
                   consequence.p)

parseWhileStatement(p) ==
    LET condition == parse("Condition", nextToken(p))
        e == expectPeek(condition.p, "DO")
        body == parse("BlockStatement", nextToken(e.p))
    IN IF ~e.ok THEN Parsed(NilPtr("WhileStatement"), e.p)
       ELSE Parsed([type |-> "WhileStatement", condition |-> condition.n,
                    body |-> body.n], body.p)

parseForStatement(p) ==
    LET e1 == expectPeek(p, "EACH")
        e2 == expectPeek(e1.p, "IDENT")
        e3 == expectPeek(e2.p, "IN")
        iterable == parse("Primary", nextToken(e3.p))
        e4 == expectPeek(iterable.p, "DO")
        body == parse("BlockStatement", nextToken(e4.p))
    IN IF ~e1.ok THEN Parsed(NilPtr("ForStatement"), e1.p)
       ELSE IF ~e2.ok THEN Parsed(NilPtr("ForStatement"), e2.p)
       ELSE IF ~e3.ok THEN Parsed(NilPtr("ForStatement"), e3.p)
       ELSE IF ~e4.ok THEN Parsed(NilPtr("ForStatement"), e4.p)
       ELSE Parsed([type |-> "ForStatement", variable |-> curToken(e2.p).literal,
                    iterable |-> iterable.n, body |-> body.n], body.p)

\* the "and" loop of parseFunctionDefinition: a parameter is whatever token
\* stands there
RECURSIVE parseParameters(_, _)
parseParameters(params, p) ==
    IF peekTokenIs(p, "AND")
    THEN LET p2 == nextToken(nextToken(p))
         IN parseParameters(Append(params, curToken(p2).literal), p2)
    ELSE [items |-> params, p |-> p]

parseFunctionDefinition(p) ==
    LET e == expectPeek(p, "IDENT")
        p2 == nextToken(nextToken(e.p))
        params == IF peekTokenIs(e.p, "WITH")
                  THEN parseParameters(<<curToken(p2).literal>>, p2)
                  ELSE [items |-> <<>>, p |-> e.p]
        body == parse("BlockStatement", nextToken(params.p))
    IN IF ~e.ok THEN Parsed(NilPtr("FunctionDefinition"), e.p)
       ELSE Parsed([type |-> "FunctionDefinition", name |-> curToken(e.p).literal,
                    parameters |-> params.items, body |-> body.n], body.p)

parseReturnStatement(p) ==
    LET p1 == nextToken(p)
        value == parse("Expression", p1)
    IN IF ~curTokenIs(p1, "DONE") /\ ~curTokenIs(p1, "EOF")
       THEN Parsed([type |-> "ReturnStatement", returnValue |-> value.n], value.p)
       ELSE Parsed([type |-> "ReturnStatement", returnValue |-> Nil], p1)

parseSayStatement(p) ==
    LET value == parse("Expression", nextToken(p))
    IN Parsed([type |-> "SayStatement", value |-> value.n], value.p)

parseAskStatement(p) ==
    LET e1 == expectPeek(p, "INTO")
        e2 == expectPeek(e1.p, "IDENT")
    IN IF ~e1.ok THEN Parsed(NilPtr("AskStatement"), e1.p)
       ELSE IF ~e2.ok THEN Parsed(NilPtr("AskStatement"), e2.p)
       ELSE Parsed([type |-> "AskStatement", target |-> curToken(e2.p).literal], e2.p)

parseAppendStatement(p) ==
    LET value == parse("Expression", nextToken(p))
        e1 == expectPeek(value.p, "TO")
        e2 == expectPeek(e1.p, "IDENT")
    IN IF ~e1.ok THEN Parsed(NilPtr("AppendStatement"), e1.p)
       ELSE IF ~e2.ok THEN Parsed(NilPtr("AppendStatement"), e2.p)
       ELSE Parsed([type |-> "AppendStatement", value |-> value.n,
                    list |-> curToken(e2.p).literal], e2.p)

\* parse E as json into x / encode E as json into x
parseJsonStatement(p, kind) ==
    LET src == parse("Expression", nextToken(p))
        e1 == expectPeek(src.p, "AS")
        e2 == expectPeek(e1.p, "JSON")
        e3 == expectPeek(e2.p, "INTO")
        e4 == expectPeek(e3.p, "IDENT")
    IN IF ~e1.ok THEN Parsed(NilPtr(kind), e1.p)
       ELSE IF ~e2.ok THEN Parsed(NilPtr(kind), e2.p)
       ELSE IF ~e3.ok THEN Parsed(NilPtr(kind), e3.p)
       ELSE IF ~e4.ok THEN Parsed(NilPtr(kind), e4.p)
       ELSE Parsed([type |-> kind, source |-> src.n,
                    target |-> curToken(e4.p).literal], e4.p)

parseParseJsonStatement(p) == parseJsonStatement(p, "ParseJsonStatement")
parseEncodeJsonStatement(p) == parseJsonStatement(p, "EncodeJsonStatement")

\* fetch from URL [with HEADERS] into target
parseFetchStatement(p) ==
    LET e1 == expectPeek(p, "FROM")
        url == parse("Expression", nextToken(e1.p))
        hasHeaders == peekTokenIs(url.p, "WITH")
        headers == parse("Expression", nextToken(nextToken(url.p)))
        ph == IF hasHeaders THEN headers.p ELSE url.p
        e2 == expectPeek(ph, "INTO")
        e3 == expectPeek(e2.p, "IDENT")
    IN IF ~e1.ok THEN Parsed(NilPtr("FetchStatement"), e1.p)
       ELSE IF ~e2.ok THEN Parsed(NilPtr("FetchStatement"), e2.p)
       ELSE IF ~e3.ok THEN Parsed(NilPtr("FetchStatement"), e3.p)
       ELSE Parsed([type |-> "FetchStatement", url |-> url.n,
                    headers |-> IF hasHeaders THEN headers.n ELSE Nil,
                    target |-> curToken(e3.p).literal], e3.p)

\* the modifiers of a reply statement: with status N, with header "X" as "Y"
RECURSIVE parseReplyModifiers(_, _)
parseReplyModifiers(stmt, p) ==
    IF ~peekTokenIs(p, "WITH") THEN Parsed(stmt, p)
    ELSE LET p2 == nextToken(nextToken(p))
             status == parse("Expression", nextToken(p2))
             headerName == parse("Expression", nextToken(p2))
             e1 == expectPeek(headerName.p, "AS")
             headerValue == parse("Expression", nextToken(e1.p))
         IN IF curTokenIs(p2, "STATUS")
            THEN parseReplyModifiers([stmt EXCEPT !.status = status.n], status.p)
            ELSE IF ~curTokenIs(p2, "HEADER") THEN parseReplyModifiers(stmt, p2)
            ELSE IF ~e1.ok THEN Parsed(NilPtr("ReplyStatement"), e1.p)
            ELSE parseReplyModifiers(
                     [stmt EXCEPT !.headers = Append(@, [name |-> headerName.n,
                                                         value |-> headerValue.n])],
                     headerValue.p)

\* reply with E [as json] [with status N] [with header "X" as "Y"]
parseReplyStatement(p) ==
    LET e1 == expectPeek(p, "WITH")
        body == parse("Expression", nextToken(e1.p))
        pa == IF peekTokenIs(body.p, "AS") THEN nextToken(body.p) ELSE body.p
        isJson == peekTokenIs(body.p, "AS") /\ peekTokenIs(pa, "JSON")
    IN IF ~e1.ok THEN Parsed(NilPtr("ReplyStatement"), e1.p)
       ELSE parseReplyModifiers(
                [type |-> "ReplyStatement", body |-> body.n, asJson |-> isJson,
                 status |-> Nil, headers |-> <<>>],
                IF isJson THEN nextToken(pa) ELSE pa)

\* statements of the core language; every other first token yields nil
parseStatement(p) ==
    LET t == curToken(p).type
    IN CASE t = "SET" -> parseSetStatement(p)
         [] t = "INCREASE" -> parseIncreaseStatement(p)
         [] t = "DECREASE" -> parseDecreaseStatement(p)
         [] t = "IF" -> parseIfStatement(p)
         [] t = "WHILE" -> parseWhileStatement(p)
         [] t = "FOR" -> parseForStatement(p)
         [] t = "TO" -> parseFunctionDefinition(p)
         [] t = "RETURN" -> parseReturnStatement(p)
         [] t = "SAY" -> parseSayStatement(p)
         [] t = "ASK" -> parseAskStatement(p)
         [] t = "APPEND" -> parseAppendStatement(p)
         [] t = "PARSE" -> parseParseJsonStatement(p)
         [] t = "ENCODE" -> parseEncodeJsonStatement(p)
         [] t = "REPLY" -> parseReplyStatement(p)
         [] t = "FETCH" -> parseFetchStatement(p)
         [] OTHER -> Parsed(Nil, p)

\* the loop shared by parseBlockStatement and ParseProgram: parse a
\* statement, keep it unless it is nil, step to the next token
RECURSIVE parseStatements(_, _, _)
parseStatements(stmts, p, stops) ==
    IF curToken(p).type \in stops THEN [items |-> stmts, p |-> p]
    ELSE LET stmt == parse("Statement", p)
         IN parseStatements(IF stmt.n = Nil THEN stmts ELSE Append(stmts, stmt.n),
                            nextToken(stmt.p), stops)

parseBlockStatement(p) ==
    LET r == parseStatements(<<>>, p, {"DONE", "OTHERWISE", "EOF"})
    IN Parsed([type |-> "BlockStatement", statements |-> r.items], r.p)

parse(production, p) ==
    CASE production = "Statement" -> parseStatement(p)
      [] production = "BlockStatement" -> parseBlockStatement(p)
      [] production = "Condition" -> parseCondition(p)
      [] production = "LogicalOr" -> parseLogicalOr(p)
      [] production = "LogicalAnd" -> parseLogicalAnd(p)
      [] production = "LogicalNot" -> parseLogicalNot(p)
      [] production = "Comparison" -> parseComparison(p)
      [] production = "Expression" -> parseExpression(p)
      [] production = "ArithmeticExpression" -> parseArithmeticExpression(p)
      [] production = "Term" -> parseTerm(p)
      [] production = "Primary" -> parsePrimary(p)

ParseProgram(p) ==
    LET r == parseStatements(<<>>, p, {"EOF"})
    IN [type |-> "Program", statements |-> r.items, errors |-> r.p.errors]

\* ---------------------------------------------------------------------
\* Tree-walking evaluator.  Environments and lists are Go pointers: an
\* environment is its index into envs (0 = no outer), a list its index
\* into heap.  The machine st holds envs, heap, the lines printed, the
\* lines left on standard input, the call depth and the calls made.
\* ---------------------------------------------------------------------

\* a recursion deeper than this, or a loop longer, is cut off
MaxDepth == 3
MaxIterations == 4

FunctionObj(parameters, body, e) ==
    [type |-> "FUNCTION", parameters |-> parameters, body |-> body, env |-> e]
ListObj(ref) == [type |-> "LIST", ref |-> ref]
TRUEObj == BooleanObj(TRUE)
FALSEObj == BooleanObj(FALSE)

\* the run ended without a value: the goroutine stack overflowed, a loop
\* did not end, or a nil object was dereferenced
Cut(reason) == [type |-> "CUT", reason |-> reason]
Failed(obj) == isError(obj) \/ obj.type = "CUT"

Evaluated(val, st) == [val |-> val, st |-> st]

NewEnclosedEnvironment(envs, outer) == Append(envs, [store |-> <<>>, outer |-> outer])

RECURSIVE Get(_, _, _)
Get(envs, e, name) ==
    IF name \in DOMAIN envs[e].store THEN [obj |-> envs[e].store[name], ok |-> TRUE]
    ELSE IF envs[e].outer # 0 THEN Get(envs, envs[e].outer, name)
    ELSE [obj |-> Nil, ok |-> FALSE]

\* the frame, from e outward, that binds the name (e itself when none does)
RECURSIVE Binder(_, _, _)
Binder(envs, e, name) ==
    IF name \in DOMAIN envs[e].store \/ envs[e].outer = 0 THEN e
    ELSE Binder(envs, envs[e].outer, name)

\* an assignment that wrote the binding it found, in whatever frame
SetWhereBound(envs, e, name, val) ==
    LET b == IF Get(envs, e, name).ok THEN Binder(envs, e, name) ELSE e
    IN [envs EXCEPT ![b].store = (name :> val) @@ @]

Set(envs, e, name, val) ==
    [envs EXCEPT ![e].store = (name :> val) @@ @]

nativeBoolToBooleanObject(input) == IF input THEN TRUEObj ELSE FALSEObj

isTruthy(obj) ==
    CASE obj.type = "NULL" -> FALSE
      [] obj.type = "BOOLEAN" -> obj.value
      [] obj.type = "INTEGER" -> obj.value # 0
      [] OTHER -> TRUE

evalEquals(left, right) ==
    IF left.type = "NULL" /\ right.type = "NULL" THEN TRUEObj
    ELSE IF left.type = "NULL" \/ right.type = "NULL" THEN FALSEObj
    ELSE IF left.type \in {"INTEGER", "STRING", "BOOLEAN"} /\ right.type = left.type
    THEN nativeBoolToBooleanObject(left.value = right.value)
    ELSE FALSEObj

\* evalGreater and evalLess
evalOrdering(left, right, greater) ==
    IF left.type # "INTEGER"
    THEN ErrorObj("comparison requires integers, got " \o left.type)
    ELSE IF right.type # "INTEGER"
    THEN ErrorObj("comparison requires integers, got " \o right.type)
    ELSE nativeBoolToBooleanObject(IF greater THEN left.value > right.value
                                   ELSE left.value < right.value)

\* ----- JSON.  A Go interface{} value is a record with its dynamic type
\* (kind); a JSON text is a string.

JsonObj(v) == [type |-> "JSON", value |-> v]
GoNil == [kind |-> "nil"]
GoBool(b) == [kind |-> "bool", value |-> b]
GoInt64(n) == [kind |-> "int64", value |-> n]
GoFloat64(n) == [kind |-> "float64", value |-> n]
GoString(str) == [kind |-> "string", value |-> str]
GoArray(items) == [kind |-> "array", items |-> items]

RECURSIVE objectToInterface(_, _)
objectToInterface(heap, obj) ==
    CASE obj.type = "INTEGER" -> GoInt64(obj.value)
      [] obj.type = "STRING" -> GoString(obj.value)
      [] obj.type = "BOOLEAN" -> GoBool(obj.value)
      [] obj.type = "NULL" -> GoNil
      [] obj.type = "LIST" ->
           GoArray([i \in 1..Len(heap[obj.ref]) |-> objectToInterface(heap, heap[obj.ref][i])])
      [] obj.type = "JSON" -> obj.value
      [] OTHER -> GoNil

\* json.Marshal of a value; strings hold no character that is escaped
RECURSIVE Marshal(_)
RECURSIVE MarshalItems(_, _)
MarshalItems(items, i) ==
    IF i > Len(items) THEN ""
    ELSE (IF i > 1 THEN "," ELSE "") \o Marshal(items[i]) \o MarshalItems(items, i + 1)

Marshal(v) ==
    CASE v.kind \in {"int64", "float64"} -> FormatInt(v.value)
      [] v.kind = "string" -> Quote(v.value)
      [] v.kind = "bool" -> FormatBool(v.value)
      [] v.kind = "array" -> "[" \o MarshalItems(v.items, 1) \o "]"
      [] OTHER -> "null"

\* json.Unmarshal into an interface{}: a number becomes a float64.  Each
\* decoder returns the value, the position after it and whether it decoded.
Decoded(v, i) == [v |-> v, i |-> i, ok |-> TRUE]
Undecoded == [v |-> GoNil, i |-> 0, ok |-> FALSE]
CharAt(text, i) == IF i >= 1 /\ i <= Len(text) THEN SubSeq(text, i, i) ELSE ""
StartsWith(text, i, word) ==
    i + Len(word) - 1 <= Len(text) /\ SubSeq(text, i, i + Len(word) - 1) = word

\* the position of the quote that closes a string opened before i
RECURSIVE ClosingQuote(_, _)
ClosingQuote(text, i) ==
    IF i > Len(text) THEN 0
    ELSE IF CharAt(text, i) = "\"" THEN i
    ELSE ClosingQuote(text, i + 1)

\* the position after the digits that start at i
RECURSIVE DigitsEnd(_, _)
DigitsEnd(text, i) == IF IsDigit(CharAt(text, i)) THEN DigitsEnd(text, i + 1) ELSE i

decodeNumber(text, i) ==
    LET first == IF CharAt(text, i) = "-" THEN i + 1 ELSE i
        after == DigitsEnd(text, first)
    IN IF after = first THEN Undecoded
       ELSE Decoded(GoFloat64((IF first = i THEN 1 ELSE -1)
                              * ParseInt(SubSeq(text, first, after - 1))), after)

RECURSIVE decodeValue(_, _)
RECURSIVE decodeItems(_, _, _)
decodeItems(text, i, items) ==
    LET item == decodeValue(text, i)
    IN IF ~item.ok THEN Undecoded
       ELSE IF CharAt(text, item.i) = ","
       THEN decodeItems(text, item.i + 1, Append(items, item.v))
       ELSE IF CharAt(text, item.i) = "]"
       THEN Decoded(GoArray(Append(items, item.v)), item.i + 1)
       ELSE Undecoded

decodeValue(text, i) ==
    LET c == CharAt(text, i)
        q == ClosingQuote(text, i + 1)
    IN IF c = "\"" THEN IF q = 0 THEN Undecoded
                        ELSE Decoded(GoString(SubSeq(text, i + 1, q - 1)), q + 1)
       ELSE IF c = "[" THEN IF CharAt(text, i + 1) = "]" THEN Decoded(GoArray(<<>>), i + 2)
                            ELSE decodeItems(text, i + 1, <<>>)
       ELSE IF StartsWith(text, i, "true") THEN Decoded(GoBool(TRUE), i + 4)
       ELSE IF StartsWith(text, i, "false") THEN Decoded(GoBool(FALSE), i + 5)
       ELSE IF StartsWith(text, i, "null") THEN Decoded(GoNil, i + 4)
       ELSE decodeNumber(text, i)

Unmarshal(text) ==
    LET r == decodeValue(text, 1)
    IN IF r.ok /\ r.i = Len(text) + 1 THEN r ELSE Undecoded

\* List.Inspect and the Inspect of the other objects
RECURSIVE InspectIn(_, _)
RECURSIVE JoinInspect(_, _, _)
JoinInspect(heap, elements, i) ==
    IF i > Len(elements) THEN ""
    ELSE (IF i > 1 THEN ", " ELSE "") \o InspectIn(heap, elements[i])
         \o JoinInspect(heap, elements, i + 1)

InspectIn(heap, v) ==
    CASE v.type = "LIST" -> "[" \o JoinInspect(heap, heap[v.ref], 1) \o "]"
      [] v.type = "FUNCTION" -> "to function"
      [] v.type = "JSON" -> Marshal(v.value)
      [] v.type = "RESPONSE" -> "Response{status: " \o FormatInt(v.status)
                                  \o ", body: " \o Quote(v.body) \o "}"
      [] v.type = "RETURN_VALUE" -> InspectIn(heap, v.value)
      [] OTHER -> Inspect(v)

RECURSIVE Eval(_, _, _)

evalIdentifier(node, e, st) ==
    IF node.value = "null" THEN Evaluated(NULL, st)
    ELSE IF node.value = "true" THEN Evaluated(TRUEObj, st)
    ELSE IF node.value = "false" THEN Evaluated(FALSEObj, st)
    ELSE LET b == Get(st.envs, e, node.value)
         IN IF ~b.ok THEN Evaluated(ErrorObj("undefined variable: " \o node.value), st)
            ELSE Evaluated(b.obj, st)

\* a set statement that binds whatever its value is
SetGoesOn(val) == FALSE

\* `if isError(val) { return val }` of evalSetStatement
SetStops(val) == Failed(val)

evalSetNode(node, e, st) ==
    LET val == Eval(node.value, e, st)
    IN IF SetStops(val.val) THEN val
       ELSE Evaluated(val.val, [val.st EXCEPT !.envs = Set(@, e, node.name, val.val)])

\* evalIncreaseStatement (sign = 1) and evalDecreaseStatement (sign = -1)
evalStepNode(node, e, st, verb, sign) ==
    LET current == Get(st.envs, e, node.target)
        amount == Eval(node.amount, e, st)
        sum == IntegerObj(current.obj.value + sign * amount.val.value)
    IN IF ~current.ok
       THEN Evaluated(ErrorObj("undefined variable: " \o node.target), st)
       ELSE IF current.obj.type # "INTEGER"
       THEN Evaluated(ErrorObj(verb \o " requires an integer variable, got "
                               \o current.obj.type), st)
       ELSE IF Failed(amount.val) THEN amount
       ELSE IF amount.val.type # "INTEGER"
       THEN Evaluated(ErrorObj(verb \o " amount must be an integer, got "
                               \o amount.val.type), amount.st)
       ELSE Evaluated(sum, [amount.st EXCEPT !.envs = Set(@, e, node.target, sum)])

evalArithmeticNode(node, e, st) ==
    LET left == Eval(node.left, e, st)
        right == Eval(node.right, e, left.st)
    IN IF Failed(left.val) THEN left
       ELSE IF Failed(right.val) THEN right
       ELSE Evaluated(evalArithmeticExpression(left.val, node.operator, right.val).value,
                      right.st)

evalComparisonExpression(node, e, st) ==
    LET left == Eval(node.left, e, st)
        right == Eval(node.right, e, left.st)
    IN IF Failed(left.val) THEN left
       ELSE IF Failed(right.val) THEN right
       ELSE Evaluated(CASE node.operator = "equals" -> evalEquals(left.val, right.val)
                        [] node.operator = "greater" ->
                             evalOrdering(left.val, right.val, TRUE)
                        [] node.operator = "less" ->
                             evalOrdering(left.val, right.val, FALSE)
                        [] OTHER -> FALSEObj,
                      right.st)

evalLogicalExpression(node, e, st) ==
    LET left == Eval(node.left, e, st)
        right == Eval(node.right, e, IF node.operator = "not" THEN st ELSE left.st)
    IN CASE node.operator = "not" ->
              IF Failed(right.val) THEN right
              ELSE Evaluated(nativeBoolToBooleanObject(~isTruthy(right.val)), right.st)
         [] node.operator = "and" ->
              IF Failed(left.val) THEN left
              ELSE IF ~isTruthy(left.val) THEN Evaluated(FALSEObj, left.st)
              ELSE IF Failed(right.val) THEN right
              ELSE Evaluated(nativeBoolToBooleanObject(isTruthy(right.val)), right.st)
         [] node.operator = "or" ->
              IF Failed(left.val) THEN left
              ELSE IF isTruthy(left.val) THEN Evaluated(TRUEObj, left.st)
              ELSE IF Failed(right.val) THEN right
              ELSE Evaluated(nativeBoolToBooleanObject(isTruthy(right.val)), right.st)
         [] OTHER -> Evaluated(FALSEObj, st)

evalNegativeExpression(node, e, st) ==
    LET val == Eval(node.value, e, st)
    IN IF Failed(val.val) THEN val
       ELSE IF val.val.type # "INTEGER"
       THEN Evaluated(ErrorObj("minus requires an integer, got " \o val.val.type), val.st)
       ELSE Evaluated(IntegerObj(-val.val.value), val.st)

\* the hosts that answer; a request to any other URL fails in the transport
Reachable == {"http://up"}

ResponseObj(status, body) ==
    [type |-> "RESPONSE", status |-> status, body |-> body, headers |-> EmptyMap]

\* executeRequest: the Response of the exchange, or the transport's error
executeRequest(method, url) ==
    IF url \in Reachable THEN [ok |-> TRUE, response |-> ResponseObj(StatusOK, "ok")]
    ELSE [ok |-> FALSE, err |-> "dial tcp: connection refused"]

evalFetchStatement(node, e, st) ==
    LET url == Eval(node.url, e, st)
        headersObj == Eval(node.headers, e, url.st)
        sent == IF node.headers = Nil THEN url.st ELSE headersObj.st
        exchange == executeRequest("GET", url.val.value)
    IN IF Failed(url.val) THEN url
       ELSE IF url.val.type # "STRING"
       THEN Evaluated(ErrorObj("fetch URL must be a string, got " \o url.val.type), url.st)
       ELSE IF node.headers # Nil /\ Failed(headersObj.val) THEN headersObj
       ELSE IF node.headers # Nil /\ headersObj.val.type # "LIST"
       THEN Evaluated(ErrorObj("headers must be a list, got " \o headersObj.val.type),
                      headersObj.st)
       ELSE IF ~exchange.ok
       THEN Evaluated(ErrorObj("fetch failed: " \o exchange.err), sent)
       ELSE Evaluated(exchange.response,
                      [sent EXCEPT !.envs = Set(@, e, node.target, exchange.response)])

\* the header pairs of a reply statement, each name and value evaluated
RECURSIVE evalHeaderPairs(_, _, _, _, _)
evalHeaderPairs(hps, i, pairs, e, st) ==
    IF i > Len(hps) THEN [items |-> pairs, st |-> st]
    ELSE LET nameObj == Eval(hps[i].name, e, st)
             valueObj == Eval(hps[i].value, e, nameObj.st)
         IN evalHeaderPairs(hps, i + 1,
                            Append(pairs, [name |-> nameObj.val, value |-> valueObj.val]),
                            e, valueObj.st)

\* evalReplyStatement on a node of the tree: body, status and headers are
\* evaluated in this order and the ReplyValue is built from their values
evalReplyNode(node, e, st) ==
    LET bodyObj == Eval(node.body, e, st)
        statusObj == Eval(node.status, e, bodyObj.st)
        hps == evalHeaderPairs(node.headers, 1, <<>>, e, statusObj.st)
    IN IF Failed(bodyObj.val) THEN bodyObj
       ELSE IF bodyObj.val = Nil THEN Evaluated(Cut("nil pointer dereference"), bodyObj.st)
       ELSE IF node.status # Nil /\ Failed(statusObj.val) THEN statusObj
       ELSE Evaluated(evalReplyStatement([body |-> bodyObj.val, asJson |-> node.asJson,
                                          status |-> statusObj.val,
                                          headers |-> hps.items]).value,
                      hps.st)

\* a block or loop that only an error ended
EndsOnError(obj) == obj.type \in {"ERROR", "CUT"}

\* a block that a reply ends as well
EndsOnReply(obj) == obj.type \in {"RETURN_VALUE", "ERROR", "CUT", "REPLY_VALUE"}

\* a result that ends the enclosing block or loop
EndsBlock(obj) == obj.type \in {"RETURN_VALUE", "ERROR", "CUT"}

\* the loop of evalBlockStatement, up to and including statement n
RECURSIVE evalBlockUpTo(_, _, _, _)
evalBlockUpTo(statements, n, e, st) ==
    IF n = 0 THEN Evaluated(Nil, st)
    ELSE LET before == evalBlockUpTo(statements, n - 1, e, st)
         IN IF EndsBlock(before.val) THEN before
            ELSE Eval(statements[n], e, before.st)

evalBlockStatement(block, e, st) ==
    evalBlockUpTo(block.statements, Len(block.statements), e, st)

\* the loop of evalProgram, up to and including statement n; done tells
\* that a return or an error has ended the program
RECURSIVE evalProgramUpTo(_, _, _, _)
evalProgramUpTo(statements, n, e, st) ==
    IF n = 0 THEN [val |-> Nil, st |-> st, done |-> FALSE]
    ELSE LET before == evalProgramUpTo(statements, n - 1, e, st)
             r == Eval(statements[n], e, before.st)
         IN IF before.done THEN before
            ELSE IF r.val.type = "RETURN_VALUE"
            THEN [val |-> r.val.value, st |-> r.st, done |-> TRUE]
            ELSE [val |-> r.val, st |-> r.st, done |-> Failed(r.val)]

evalProgram(node, e, st) ==
    LET r == evalProgramUpTo(node.statements, Len(node.statements), e, st)
    IN Evaluated(r.val, r.st)

evalIfStatement(node, e, st) ==
    LET condition == Eval(node.condition, e, st)
    IN IF Failed(condition.val) THEN condition
       ELSE IF isTruthy(condition.val) THEN Eval(node.consequence, e, condition.st)
       ELSE IF node.alternative # Nil THEN Eval(node.alternative, e, condition.st)
       ELSE Evaluated(NULL, condition.st)

RECURSIVE evalWhileFrom(_, _, _, _, _)
evalWhileFrom(node, n, last, e, st) ==
    LET condition == Eval(node.condition, e, st)
        body == Eval(node.body, e, condition.st)
    IN IF Failed(condition.val) THEN condition
       ELSE IF ~isTruthy(condition.val) THEN Evaluated(last, condition.st)
       ELSE IF n >= MaxIterations THEN Evaluated(Cut("loop without end"), condition.st)
       ELSE IF EndsBlock(body.val) THEN body
       ELSE evalWhileFrom(node, n + 1, body.val, e, body.st)

evalWhileStatement(node, e, st) == evalWhileFrom(node, 0, NULL, e, st)

\* a range that reads the list anew at every iteration
RangedLive(atStart, now) == now

\* `range list.Elements` evaluates its operand once: the loop runs over the
\* elements the list had when it started, whatever the list holds now
Ranged(atStart, now) == atStart

\* the loop of evalForStatement
RECURSIVE evalForFrom(_, _, _, _, _, _, _)
evalForFrom(node, ref, atStart, i, last, e, st) ==
    LET elements == Ranged(atStart, st.heap[ref])
        body == Eval(node.body, e,
                     [st EXCEPT !.envs = Set(@, e, node.variable, elements[i])])
    IN IF i > Len(elements) THEN Evaluated(last, st)
       ELSE IF EndsBlock(body.val) THEN body
       ELSE evalForFrom(node, ref, atStart, i + 1, body.val, e, body.st)

evalForStatement(node, e, st) ==
    LET iterable == Eval(node.iterable, e, st)
    IN IF Failed(iterable.val) THEN iterable
       ELSE IF iterable.val.type # "LIST"
       THEN Evaluated(ErrorObj("for each requires a list, got " \o iterable.val.type),
                      iterable.st)
       ELSE evalForFrom(node, iterable.val.ref, iterable.st.heap[iterable.val.ref],
                        1, NULL, e, iterable.st)

evalFunctionDefinition(node, e, st) ==
    LET fn == FunctionObj(node.parameters, node.body, e)
    IN Evaluated(fn, [st EXCEPT !.envs = Set(@, e, node.name, fn)])

\* the loops that evaluate arguments and list elements, left to right
RECURSIVE evalExpressions(_, _, _, _, _)
evalExpressions(exprs, i, vals, e, st) ==
    IF i > Len(exprs) THEN [val |-> Nil, vals |-> vals, st |-> st]
    ELSE LET r == Eval(exprs[i], e, st)
         IN IF Failed(r.val) THEN [val |-> r.val, vals |-> vals, st |-> r.st]
            ELSE evalExpressions(exprs, i + 1, Append(vals, r.val), e, r.st)

\* the parameter loop of evalCallExpression
RECURSIVE BindParameters(_, _, _, _, _)
BindParameters(envs, extendedEnv, parameters, args, i) ==
    IF i > Len(parameters) THEN envs
    ELSE BindParameters(IF i <= Len(args)
                        THEN Set(envs, extendedEnv, parameters[i], args[i])
                        ELSE envs,
                        extendedEnv, parameters, args, i + 1)

\* a call frame that enclosed the environment of the call site
EnclosedByCaller(fn, caller) == caller

\* the environment a call frame encloses
EnclosedBy(fn, caller) == fn.env

evalCallExpression(node, e, st) ==
    LET name == node.function.value
        f == Get(st.envs, e, name)
        fn == f.obj
        args == evalExpressions(node.arguments, 1, <<>>, e, st)
        extendedEnv == Len(args.st.envs) + 1
        entered ==
            [args.st EXCEPT
               !.envs = BindParameters(NewEnclosedEnvironment(@, EnclosedBy(fn, e)),
                                       extendedEnv, fn.parameters, args.vals, 1),
               !.depth = @ + 1,
               !.calls = Append(@, [function |-> name, frame |-> extendedEnv,
                                    caller |-> e, env |-> fn.env,
                                    parameters |-> fn.parameters,
                                    args |-> args.vals])]
        body == Eval(fn.body, extendedEnv, entered)
        left == [body.st EXCEPT !.depth = @ - 1]
    IN IF ~f.ok THEN Evaluated(ErrorObj("function not defined: " \o name), st)
       ELSE IF fn.type # "FUNCTION"
       THEN Evaluated(ErrorObj(name \o " is not a function"), st)
       ELSE IF Failed(args.val) THEN Evaluated(args.val, args.st)
       ELSE IF st.depth >= MaxDepth THEN Evaluated(Cut("stack overflow"), args.st)
       ELSE IF body.val.type = "RETURN_VALUE" THEN Evaluated(body.val.value, left)
       ELSE Evaluated(body.val, left)

evalReturnStatement(node, e, st) ==
    LET val == Eval(node.returnValue, e, st)
    IN IF node.returnValue = Nil THEN Evaluated(ReturnValueObj(NULL), st)
       ELSE IF Failed(val.val) THEN val
       ELSE Evaluated(ReturnValueObj(val.val), val.st)

evalSayStatement(node, e, st) ==
    LET val == Eval(node.value, e, st)
    IN IF Failed(val.val) THEN val
       ELSE IF val.val = Nil THEN Evaluated(Cut("nil pointer dereference"), val.st)
       ELSE Evaluated(NULL, [val.st EXCEPT
                               !.out = Append(@, InspectIn(val.st.heap, val.val))])

evalAskStatement(node, e, st) ==
    IF st.stdin = <<>> THEN Evaluated(ErrorObj("error reading input: EOF"), st)
    ELSE LET answer == StringObj(Head(st.stdin))
         IN Evaluated(answer, [st EXCEPT !.stdin = Tail(@),
                                         !.envs = Set(@, e, node.target, answer)])

evalLengthExpression(node, e, st) ==
    LET val == Eval(node.list, e, st)
    IN IF Failed(val.val) THEN val
       ELSE IF val.val.type = "LIST"
       THEN Evaluated(IntegerObj(Len(val.st.heap[val.val.ref])), val.st)
       ELSE IF val.val.type = "STRING"
       THEN Evaluated(IntegerObj(Len(val.val.value)), val.st)
       ELSE Evaluated(ErrorObj("length requires a list or string, got "
                               \o val.val.type), val.st)

\* indexing that counts the elements from zero
ElementFromZero(elements, idx) ==
    IF idx < 0 \/ idx >= Len(elements)
    THEN ErrorObj("index out of bounds: " \o FormatInt(idx) \o " (list has "
                  \o FormatInt(Len(elements)) \o " elements)")
    ELSE elements[idx + 1]

\* l.Elements[idx.Value-1] of a list of the given elements
ElementAt(elements, idx) ==
    IF idx < 1 \/ idx > Len(elements)
    THEN ErrorObj("index out of bounds: " \o FormatInt(idx) \o " (list has "
                  \o FormatInt(Len(elements)) \o " elements)")
    ELSE elements[idx]

evalIndexExpression(node, e, st) ==
    LET index == Eval(node.index, e, st)
        list == Eval(node.list, e, index.st)
        idx == index.val.value
    IN IF Failed(index.val) THEN index
       ELSE IF Failed(list.val) THEN list
       ELSE IF index.val.type # "INTEGER"
       THEN Evaluated(ErrorObj("index must be an integer, got " \o index.val.type),
                      list.st)
       ELSE IF list.val.type = "LIST"
       THEN Evaluated(ElementAt(list.st.heap[list.val.ref], idx), list.st)
       ELSE IF list.val.type = "STRING"
       THEN Evaluated(IF idx < 1 \/ idx > Len(list.val.value)
                      THEN ErrorObj("index out of bounds: " \o FormatInt(idx)
                                    \o " (string has " \o FormatInt(Len(list.val.value))
                                    \o " characters)")
                      ELSE StringObj(SubSeq(list.val.value, idx, idx)),
                      list.st)
       ELSE Evaluated(ErrorObj("indexing requires a list or string, got "
                               \o list.val.type), list.st)

evalListLiteral(node, e, st) ==
    LET elements == evalExpressions(node.elements, 1, <<>>, e, st)
    IN IF Failed(elements.val) THEN Evaluated(elements.val, elements.st)
       ELSE Evaluated(ListObj(Len(elements.st.heap) + 1),
                      [elements.st EXCEPT !.heap = Append(@, elements.vals)])

\* an append that builds a new list object and leaves the bound one alone
AppendToCopy(heap, ref, value) == Append(heap, Append(heap[ref], value))

\* list.Elements = append(list.Elements, value) on the list object
AppendElement(heap, ref, value) == [heap EXCEPT ![ref] = Append(@, value)]

evalAppendStatement(node, e, st) ==
    LET value == Eval(node.value, e, st)
        b == Get(value.st.envs, e, node.list)
    IN IF Failed(value.val) THEN value
       ELSE IF ~b.ok
       THEN Evaluated(ErrorObj("undefined variable: " \o node.list), value.st)
       ELSE IF b.obj.type # "LIST"
       THEN Evaluated(ErrorObj("append requires a list, got " \o b.obj.type), value.st)
       ELSE Evaluated(NULL, [value.st EXCEPT
                               !.heap = AppendElement(@, b.obj.ref, value.val)])

evalParseJsonStatement(node, e, st) ==
    LET src == Eval(node.source, e, st)
        decoded == Unmarshal(src.val.value)
        jsonObj == JsonObj(decoded.v)
    IN IF Failed(src.val) THEN src
       ELSE IF src.val.type # "STRING"
       THEN Evaluated(ErrorObj("parse json requires a string, got " \o src.val.type),
                      src.st)
       ELSE IF ~decoded.ok THEN Evaluated(ErrorObj("invalid JSON"), src.st)
       ELSE Evaluated(jsonObj, [src.st EXCEPT !.envs = Set(@, e, node.target, jsonObj)])

evalEncodeJsonStatement(node, e, st) ==
    LET src == Eval(node.source, e, st)
        encoded == StringObj(Marshal(objectToInterface(src.st.heap, src.val)))
    IN IF Failed(src.val) THEN src
       ELSE IF src.val.type \notin {"JSON", "STRING", "INTEGER", "BOOLEAN", "LIST"}
       THEN Evaluated(ErrorObj("cannot encode " \o src.val.type \o " as json"), src.st)
       ELSE Evaluated(encoded, [src.st EXCEPT !.envs = Set(@, e, node.target, encoded)])

Eval(node, e, st) ==
    CASE node.type = "Program" -> evalProgram(node, e, st)
      [] node.type = "BlockStatement" -> evalBlockStatement(node, e, st)
      [] node.type = "SetStatement" -> evalSetNode(node, e, st)
      [] node.type = "IncreaseStatement" -> evalStepNode(node, e, st, "increase", 1)
      [] node.type = "DecreaseStatement" -> evalStepNode(node, e, st, "decrease", -1)
      [] node.type = "IfStatement" -> evalIfStatement(node, e, st)
      [] node.type = "WhileStatement" -> evalWhileStatement(node, e, st)
      [] node.type = "ForStatement" -> evalForStatement(node, e, st)
      [] node.type = "FunctionDefinition" -> evalFunctionDefinition(node, e, st)
      [] node.type = "ReturnStatement" -> evalReturnStatement(node, e, st)
      [] node.type = "SayStatement" -> evalSayStatement(node, e, st)
      [] node.type = "AskStatement" -> evalAskStatement(node, e, st)
      [] node.type = "AppendStatement" -> evalAppendStatement(node, e, st)
      [] node.type = "ParseJsonStatement" -> evalParseJsonStatement(node, e, st)
      [] node.type = "EncodeJsonStatement" -> evalEncodeJsonStatement(node, e, st)
      [] node.type = "ReplyStatement" -> evalReplyNode(node, e, st)
      [] node.type = "FetchStatement" -> evalFetchStatement(node, e, st)
      [] node.type = "IntegerLiteral" -> Evaluated(IntegerObj(node.value), st)
      [] node.type = "StringLiteral" -> Evaluated(StringObj(node.value), st)
      [] node.type = "Identifier" -> evalIdentifier(node, e, st)
      [] node.type = "NegativeExpression" -> evalNegativeExpression(node, e, st)
      [] node.type = "ListLiteral" -> evalListLiteral(node, e, st)
      [] node.type = "ComparisonExpression" -> evalComparisonExpression(node, e, st)
      [] node.type = "LogicalExpression" -> evalLogicalExpression(node, e, st)
      [] node.type = "ArithmeticExpression" -> evalArithmeticNode(node, e, st)
      [] node.type = "CallExpression" -> evalCallExpression(node, e, st)
      [] node.type = "LengthExpression" -> evalLengthExpression(node, e, st)
      [] node.type = "IndexExpression" -> evalIndexExpression(node, e, st)
      [] OTHER -> Evaluated(Nil, st)

\* ---------------------------------------------------------------------
\* The read-eval-print loop: every line is lexed, parsed and, when the
\* parser reported nothing, evaluated in the one global environment.  A
\* file is run the same way, as a single line.
\* ---------------------------------------------------------------------

\* the longest session
MaxLines == 3

Global == 1

\* what standard input holds when a line runs
Answers == {<<>>, <<"yes">>}

Machine(stdin) ==
    [envs |-> environments, heap |-> lists, out |-> <<>>, stdin |-> stdin,
     depth |-> 0, calls |-> <<>>]

\* runREPL prints the result unless it is nil or null
Echo(heap, obj) ==
    IF obj.type \in {"nil", "NULL", "CUT"} THEN <<>> ELSE <<InspectIn(heap, obj)>>

printParserErrors(errors) ==
    <<"Parser errors:">> \o [i \in 1..Len(errors) |-> "  " \o errors[i]]

Read(words, stdin) ==
    /\ nread < MaxLines
    /\ words # <<>>
    /\ \E parsed \in {ParseProgram(New(Lex(words)))} :
           /\ source' = words
           /\ program' = parsed
           /\ IF parsed.errors # <<>>
              THEN /\ printed' = printParserErrors(parsed.errors)
                   /\ returned' = Nil
                   /\ called' = <<>>
                   /\ nread' = nread + 1
                   /\ UNCHANGED <<environments, lists>>
              ELSE \E r \in {Eval(parsed, Global, Machine(stdin))} :
                       /\ environments' = r.st.envs
                       /\ lists' = r.st.heap
                       /\ printed' = r.st.out \o Echo(r.st.heap, r.val)
                       /\ returned' = r.val
                       /\ called' = r.st.calls
                       \* a crashed interpreter reads no further line
                       /\ nread' = IF r.val.type = "CUT" THEN MaxLines ELSE nread + 1
    /\ UNCHANGED server

\* ----- sessions about calls, frames and return
SetB == <<"set", "b", "to", "5">>
DefF == <<"to", "f", "with", "a", "and", "b", "return", "b", "done">>
CallF1 == <<"say", "f", "with", "1">>
CallF2 == <<"say", "f", "with", "1", "and", "2">>
CallF3 == <<"say", "f", "with", "1", "and", "2", "and", "3">>

SetX == <<"set", "x", "to", "1">>
DefSets == <<"to", "fs", "with", "p", "set", "x", "to", "2", "return", "x", "done">>
DefIncreases ==
    <<"to", "fi", "with", "p", "increase", "x", "by", "1", "return", "x", "done">>
DefDecreases ==
    <<"to", "fd", "with", "p", "decrease", "x", "by", "1", "return", "x", "done">>
DefAsks == <<"to", "fa", "with", "p", "ask", "into", "x", "return", "x", "done">>
DefLoops ==
    <<"to", "ff", "with", "p", "for", "each", "x", "in", "a", "list", "of", "7",
      "and", "8", "do", "set", "p", "to", "x", "done", "return", "x", "done">>
DefDefines ==
    <<"to", "fn", "with", "p", "to", "x", "with", "q", "return", "q", "done",
      "return", "0", "done">>
CallOf(name) == <<"say", name, "with", "0">>
DefMk ==
    <<"to", "mk", "with", "x", "to", "inner", "with", "y", "set", "x", "to", "y",
      "return", "x", "done", "return", "inner", "done">>
SetH == <<"set", "h", "to", "mk", "with", "1">>
CallH == <<"say", "h", "with", "7">>

DefCallee == <<"to", "callee", "with", "q", "return", "v", "done">>
DefCaller ==
    <<"to", "caller", "with", "v", "return", "callee", "with", "0", "done">>
CallCaller == <<"say", "caller", "with", "7">>

DefR ==
    <<"to", "r", "with", "n",
        "if", "n", "equals", "0", "then",
          "while", "true", "do",
            "for", "each", "i", "in", "a", "list", "of", "1", "and", "2", "do",
              "return", "i", "say", "\"late\"",
            "done", "say", "\"late\"",
          "done", "say", "\"late\"",
        "done", "say", "\"late\"", "return", "9",
      "done">>
CallR == <<"say", "r", "with", "0">>
BindR == <<"set", "w", "to", "r", "with", "0">>
ListR == <<"set", "k", "to", "a", "list", "of", "r", "with", "0">>
TopReturn == <<"return", "5", "say", "\"late\"">>
TopNested == <<"if", "true", "then", "return", "6", "done", "say", "\"late\"">>

ScopeLines ==
    {SetB, DefF, CallF1, CallF2, CallF3,
     SetX, DefSets, DefIncreases, DefDecreases, DefAsks, DefLoops, DefDefines,
     CallOf("fs"), CallOf("fi"), CallOf("fd"), CallOf("fa"), CallOf("ff"),
     CallOf("fn"), DefMk, SetH, CallH,
     DefCallee, DefCaller, CallCaller,
     DefR, CallR, BindR, ListR, TopReturn, TopNested}

NextScope == \E words \in ScopeLines, stdin \in Answers : Read(words, stdin)

SpecScope == Init /\ [][NextScope]_vars

\* ----- sessions about the forms the parser accepts
SetAge(n) == <<"set", "age", "to", n>>
IfOtherwise ==
    <<"if", "age", "is", "greater", "than", "18", "then", "say", "\"adult\"",
      "otherwise", "say", "\"minor\"", "done">>
IfDoneOtherwise ==
    <<"if", "age", "is", "greater", "than", "18", "then", "say", "\"adult\"", "done",
      "otherwise", "say", "\"minor\"", "done">>
DefGreet ==
    <<"to", "greet", "with", "name", "say", "\"Hello, \"", "plus", "name", "done">>
CallGreet == <<"greet", "with", "\"Alice\"">>
SayGreet == <<"say", "greet", "with", "\"Alice\"">>
Factorial ==
    <<"to", "fact", "with", "n",
        "if", "n", "equals", "0", "then", "return", "1", "done",
        "return", "n", "times", "fact", "with", "n", "minus", "1",
      "done",
      "say", "fact", "with", "5">>
SetTo(name, n) == <<"set", name, "to", n>>
SetBEquals == <<"set", "b", "to", "x", "equals", "y">>
IfEquals == <<"if", "x", "equals", "y", "then", "say", "\"same\"", "done">>

SyntaxLines ==
    {SetAge("20"), SetAge("10"), IfOtherwise, IfDoneOtherwise,
     DefGreet, CallGreet, SayGreet, Factorial,
     SetTo("x", "1"), SetTo("y", "1"), SetTo("y", "2"), SetBEquals, IfEquals}

NextSyntax == \E words \in SyntaxLines, stdin \in Answers : Read(words, stdin)

SpecSyntax == Init /\ [][NextSyntax]_vars

\* ---------------------------------------------------------------------
\* Claims about calls, frames and return (SpecScope)
\* ---------------------------------------------------------------------

\* C11: in a call with fewer arguments than parameters, a parameter that
\* received no argument is undefined in the call, whatever the captured
\* environment contains: looking it up from the call's frame finds nothing.
C11_MissingArgumentIsUndefined ==
    \A i \in DOMAIN called :
        LET c == called[i]
        IN \A j \in DOMAIN c.parameters :
               (j > Len(c.args) /\ c.parameters[j] \notin DOMAIN environments[c.frame].store)
                   => ~Get(environments, c.frame, c.parameters[j]).ok

\* the names a statement list binds in the frame it runs in
RECURSIVE AssignedBy(_)
AssignedBy(statements) ==
    UNION {LET s == statements[i]
           IN CASE s.type = "SetStatement" -> {s.name}
                [] s.type \in {"IncreaseStatement", "DecreaseStatement", "AskStatement"} ->
                     {s.target}
                [] s.type = "FunctionDefinition" -> {s.name}
                [] s.type = "ForStatement" ->
                     {s.variable} \cup AssignedBy(s.body.statements)
                [] s.type = "WhileStatement" -> AssignedBy(s.body.statements)
                [] s.type = "IfStatement" ->
                     AssignedBy(s.consequence.statements)
                     \cup (IF s.alternative = Nil THEN {}
                           ELSE AssignedBy(s.alternative.statements))
                [] OTHER -> {}
           : i \in DOMAIN statements}

\* C12: an assignment writes only the innermost frame.  Whatever the calls
\* of a line assign (set, increase, decrease, ask, a for-each variable, a
\* function definition), every frame that existed before the line keeps its
\* bindings, and the global frame changes only in the names the line's own
\* top-level statements assign.
C12_AssignmentWritesInnermostFrame ==
    [][/\ \A i \in 2..Len(environments) : environments'[i] = environments[i]
       /\ \A n \in DOMAIN environments[Global].store :
              \/ n \in AssignedBy(program'.statements)
              \/ /\ n \in DOMAIN environments'[Global].store
                 /\ environments'[Global].store[n] = environments[Global].store[n]]_vars

\* a call increased x, found in the global frame, and bound the sum in its
\* own frame: the global x is still 1
C12_CallAssignedOuterName ==
    /\ source = CallOf("fi")
    /\ printed = <<"2">>
    /\ Len(called) = 1
    /\ environments[called[1].frame].store["x"] = IntegerObj(2)
    /\ environments[Global].store["x"] = IntegerObj(1)

\* the names bound in any frame
BoundNames == UNION {DOMAIN environments[k].store : k \in DOMAIN environments}

\* C13: closure is lexical.  The frame of every call encloses the
\* environment the function was defined in, so a name the call does not
\* bind resolves exactly as it does at the definition site, never through
\* the frame of the caller.
C13_FreeNamesResolveAtDefinition ==
    \A i \in DOMAIN called :
        LET c == called[i]
        IN /\ environments[c.frame].outer = c.env
           /\ \A n \in BoundNames :
                  n \notin DOMAIN environments[c.frame].store
                      => Get(environments, c.frame, n) = Get(environments, c.env, n)

\* caller bound v in its frame and called callee, where v is undefined
C13_CallerBindingUnseen ==
    /\ source = CallCaller
    /\ Len(called) = 2
    /\ called[1].function = "caller"
    /\ called[2].caller = called[1].frame
    /\ environments[called[1].frame].store["v"] = IntegerObj(7)
    /\ returned = ErrorObj("undefined variable: v")

\* C14: a return at any nesting depth of if / while / for each ends the
\* call at once and its payload is the value of the call; a top-level
\* return ends the program with its payload; no binding, list element or
\* result is a ReturnValue wrapper.  The statements that follow a return
\* in the sessions all print "late".
C14_ReturnEndsTheCall ==
    /\ returned.type # "RETURN_VALUE"
    /\ \A k \in DOMAIN environments : \A n \in DOMAIN environments[k].store :
           environments[k].store[n].type # "RETURN_VALUE"
    /\ \A k \in DOMAIN lists : \A j \in DOMAIN lists[k] :
           lists[k][j].type # "RETURN_VALUE"
    /\ \A i \in DOMAIN printed : printed[i] # "late"
    /\ (source = CallR /\ called # <<>>) => printed = <<"1">>
    /\ (source = BindR /\ called # <<>>) => returned = IntegerObj(1)
    /\ source = TopReturn => returned = IntegerObj(5)
    /\ source = TopNested => returned = IntegerObj(6)

\* the return inside for each, inside while, inside if ended the call of r
C14_ReturnedFromThreeLevels ==
    /\ source = CallR
    /\ Len(called) = 1
    /\ printed = <<"1">>
    /\ environments[called[1].frame].store["i"] = IntegerObj(1)

\* ---------------------------------------------------------------------
\* Claims about the forms the parser accepts (SpecSyntax)
\* ---------------------------------------------------------------------

Bound(name) == name \in DOMAIN environments[Global].store
GlobalValue(name) == environments[Global].store[name]

\* C15: `if C then A otherwise B done` is parsed into one If node with
\* consequence A and alternative B, and B does not run when C is truthy.
C15_OtherwiseIsTheAlternative ==
    (source = IfOtherwise /\ Bound("age")) =>
        /\ GlobalValue("age") = IntegerObj(20) =>
               /\ Len(program.statements) = 1
               /\ program.statements[1].type = "IfStatement"
               /\ program.statements[1].alternative # Nil
               /\ printed = <<"adult">>
        /\ GlobalValue("age") = IntegerObj(10) => printed = <<"minor">>

\* C16: a statement that is only a call, `greet with "Alice"`, is parsed
\* into the program and invokes greet.
C16_CallStatementInvokes ==
    (source = CallGreet /\ Bound("greet")) =>
        /\ Len(program.statements) = 1
        /\ Len(called) = 1
        /\ printed = <<"Hello, Alice">>

\* C17: the factorial program ends and prints 120; every recursive call is
\* made with the caller's n minus 1.
C17_FactorialPrints120 ==
    source = Factorial =>
        /\ returned.type # "CUT"
        /\ printed = <<"120">>
        /\ \A i \in 2..Len(called) :
               called[i].args = <<IntegerObj(called[i - 1].args[1].value - 1)>>

\* C18: the value of `set b to x equals y` is the comparison: b is bound
\* to the Boolean x = y.
C18_SetBindsComparison ==
    (source = SetBEquals /\ Bound("x") /\ Bound("y") /\ returned.type # "ERROR") =>
        /\ Bound("b")
        /\ GlobalValue("b") = evalEquals(GlobalValue("x"), GlobalValue("y"))

\* ---------------------------------------------------------------------
\* Sessions over lists (SpecLists)
\* ---------------------------------------------------------------------

MaxElements == 3

\* the elements of a list a program received as a JSON array of k numbers
Received(k) == [i \in 1..k |-> IntegerObj(10 * i)]

\* the session starts with the global l bound to a received list, which
\* may be empty
InitLists ==
    /\ NoServer
    /\ source = <<>>
    /\ program = NoProgram
    /\ \E k \in 0..MaxElements : lists = <<Received(k)>>
    /\ environments = <<[store |-> ("l" :> ListObj(1)), outer |-> 0]>>
    /\ printed = <<>>
    /\ returned = Nil
    /\ called = <<>>
    /\ nread = 0

Indexes == {"0", "1", "2", "3", "4"}
IndexLine(i) == <<"set", "e", "to", "item", i, "from", "l">>
IndexBelowZero == <<"set", "e", "to", "item", "minus", "1", "from", "l">>
LengthLine == <<"set", "n", "to", "length", "of", "l">>
AppendLine(v, name) == <<"append", v, "to", name>>
SetM == <<"set", "m", "to", "l">>
DefAdd ==
    <<"to", "add", "with", "q", "append", "7", "to", "q",
      "return", "length", "of", "q", "done">>
CallAdd == <<"say", "add", "with", "l">>
DefPush == <<"to", "push", "with", "v", "append", "v", "to", "l", "return", "v", "done">>
CallPush == <<"say", "push", "with", "6">>

ListLines ==
    {IndexLine(i) : i \in Indexes}
    \cup {IndexBelowZero, LengthLine, AppendLine("9", "l"), AppendLine("8", "m"),
          SetM, DefAdd, CallAdd, DefPush, CallPush}

NextLists == \E words \in ListLines, stdin \in Answers : Read(words, stdin)

SpecLists == InitLists /\ [][NextLists]_vars

\* the elements of the list a global name is bound to
ElementsOf(name) == lists[environments[Global].store[name].ref]

\* C19: indexing is 1-based.  `item i from l` is the i-th element of l when
\* 1 <= i <= length of l and an Error for every other i (0, negative,
\* length + 1, any index into the empty list); `length of l` is the number
\* of elements, 0 for the empty list.
C19_IndexIsOneBased ==
    /\ \A i \in Indexes :
           source = IndexLine(i) =>
               IF 1 <= ParseInt(i) /\ ParseInt(i) <= Len(ElementsOf("l"))
               THEN /\ returned = ElementsOf("l")[ParseInt(i)]
                    /\ environments[Global].store["e"] = returned
               ELSE returned.type = "ERROR"
    /\ source = IndexBelowZero => returned.type = "ERROR"
    /\ source = LengthLine => returned = IntegerObj(Len(ElementsOf("l")))

\* item 3 from a list of three elements is its last element, and item 1
\* from the empty list is an error
C19_LastElementIndexed ==
    /\ source = IndexLine("3")
    /\ Len(ElementsOf("l")) = 3
    /\ returned = IntegerObj(30)
    /\ environments[Global].store["e"] = IntegerObj(30)

\* what a line that appends v to the list bound to the global name does:
\* that list object gets v as its new last element, every other list object
\* and every binding stay as they are
Appended(name, v) ==
    LET ref == environments[Global].store[name].ref
    IN /\ lists'[ref] = Append(lists[ref], v)
       /\ \A k \in DOMAIN lists : k # ref => lists'[k] = lists[k]
       /\ \A k \in DOMAIN environments : environments'[k] = environments[k]

\* C20: `append V to L` mutates the list value bound to L.  The list grows
\* by V at its end and keeps its earlier elements, and every binding of the
\* same list (a second variable set from it, the defining frame of a
\* function, a function argument) sees the new contents, because no binding
\* and no other list changes.
C20_AppendMutatesTheBoundList ==
    [][/\ (source' = AppendLine("9", "l") /\ returned' = NULL)
            => Appended("l", IntegerObj(9))
       /\ (source' = AppendLine("8", "m") /\ returned' = NULL)
            => Appended("m", IntegerObj(8))
       /\ (source' = CallAdd /\ Len(called') = 1)
            => /\ Appended("l", IntegerObj(7))
               /\ printed' = <<FormatInt(Len(ElementsOf("l")) + 1)>>
       /\ (source' = CallPush /\ Len(called') = 1)
            => Appended("l", IntegerObj(6))]_vars

\* m was set from l and 8 was appended to m: l ends in 8 as well
C20_AliasSeesAppend ==
    /\ source = AppendLine("8", "m")
    /\ returned = NULL
    /\ environments[Global].store["m"] = environments[Global].store["l"]
    /\ ElementsOf("l")[Len(ElementsOf("l"))] = IntegerObj(8)

\* ---------------------------------------------------------------------
\* Sessions over number words (SpecNumbers)
\* ---------------------------------------------------------------------

MaxSmall == 120

Units ==
    <<"one", "two", "three", "four", "five", "six", "seven", "eight", "nine",
      "ten", "eleven", "twelve", "thirteen", "fourteen", "fifteen", "sixteen",
      "seventeen", "eighteen", "nineteen">>
Tens ==
    <<"ten", "twenty", "thirty", "forty", "fifty", "sixty", "seventy", "eighty",
      "ninety">>

\* the English words of a number, as the README writes them (forty two,
\* one hundred twenty three, one million)
SpellBelow100(n) ==
    IF n = 0 THEN <<>>
    ELSE IF n < 20 THEN <<Units[n]>>
    ELSE <<Tens[n \div 10]>> \o (IF n % 10 = 0 THEN <<>> ELSE <<Units[n % 10]>>)
SpellBelow1000(n) ==
    (IF n >= 100 THEN <<Units[n \div 100], "hundred">> ELSE <<>>)
    \o SpellBelow100(n % 100)
Spell(n) ==
    IF n = 0 THEN <<"zero">>
    ELSE (IF n >= 1000000 THEN SpellBelow1000(n \div 1000000) \o <<"million">> ELSE <<>>)
         \o (IF (n \div 1000) % 1000 # 0
             THEN SpellBelow1000((n \div 1000) % 1000) \o <<"thousand">> ELSE <<>>)
         \o SpellBelow1000(n % 1000)

\* the numbers the sessions spell: every number up to MaxSmall, and numbers
\* whose thousands and units groups are taken from the corners of 0..999
Groups == {0, 1, 19, 20, 42, 100, 101, 123, 900, 999}
Numbers ==
    0..MaxSmall
    \cup {a * 1000 + b : a \in Groups, b \in Groups}
    \cup {1000000, 1000001}

\* what follows the number on the line
Tails == {<<>>, <<"plus", "one">>, <<"say", "two">>}

NumberWords(n, tail) == <<"set", "x", "to">> \o Spell(n) \o tail

\* a session of one line that sets x to a spelled number
NumberLine(n, tail) ==
    /\ nread = 0
    /\ Read(NumberWords(n, tail), <<>>)

NextNumbers == \E n \in Numbers, tail \in Tails : NumberLine(n, tail)

SpecNumbers == Init /\ [][NextNumbers]_vars

Literal(n) == [type |-> "IntegerLiteral", value |-> n]

SetXTo(words) == <<"set", "x", "to">> \o words
EncodeX == <<"encode", "x", "as", "json", "into", "s">>
ParseS == <<"parse", "s", "as", "json", "into", "y">>
ParseText(text) == <<"parse", text, "as", "json", "into", "y">>

JsonLines ==
    {SetXTo(<<"7">>), SetXTo(<<"minus", "3">>), SetXTo(<<"\"hi\"">>),
     SetXTo(<<"true">>), SetXTo(<<"null">>),
     SetXTo(<<"a", "list", "of", "1", "and", "\"a\"">>),
     SetXTo(<<"a", "list", "of", "false", "and", "null">>),
     EncodeX, ParseS, ParseText("\"[1,\""), ParseText("\"[1,2]\""), ParseText("7")}

NextJson == \E words \in JsonLines : Read(words, <<>>)

SpecJson == Init /\ [][NextJson]_vars

\* the values of the Integer / String / Boolean / Null / List domain
ValueDomain == {"INTEGER", "STRING", "BOOLEAN", "NULL", "LIST"}

\* equality of two values, lists compared element by element
RECURSIVE SameValue(_, _)
SameValue(v, w) ==
    IF v.type = "LIST" /\ w.type = "LIST"
    THEN /\ Len(lists[v.ref]) = Len(lists[w.ref])
         /\ \A i \in DOMAIN lists[v.ref] : SameValue(lists[v.ref][i], lists[w.ref][i])
    ELSE v = w

\* C22: encode then parse round-trips.  Encoding a bound x (an Integer,
\* String, Boolean, Null or List of those) succeeds, and parsing the text
\* that encodes x binds y to a value of the same domain equal to x.
C22_EncodeThenParseRoundTrips ==
    /\ (source = EncodeX /\ Bound("x")) => returned.type # "ERROR"
    /\ (/\ source = ParseS
        /\ Bound("x")
        /\ Bound("s")
        /\ GlobalValue("s") = StringObj(Marshal(objectToInterface(lists, GlobalValue("x")))))
           => /\ returned.type # "ERROR"
              /\ Bound("y")
              /\ GlobalValue("y").type \in ValueDomain
              /\ SameValue(GlobalValue("y"), GlobalValue("x"))

\* ---------------------------------------------------------------------
\* The parser on arbitrary input: one line of at most MaxTokens words
\* drawn from a vocabulary of keywords, a name and a literal.

MaxTokens == 3

Vocabulary == {"set", "x", "to", "5", "say", "done", "if", "then"}

TokenLines == UNION {[1..n -> Vocabulary] : n \in 1..MaxTokens}

TokenLine(words) ==
    /\ nread = 0
    /\ Read(words, <<>>)

NextParser == \E words \in TokenLines : TokenLine(words)

SpecParser == Init /\ [][NextParser]_vars

\* C23: ParseProgram returns a Program for every token sequence, with at
\* most one statement per token consumed, and a production that failed
\* (one that recorded a diagnostic and gave up) contributes no statement
\* to the program.
C23_FailedProductionAddsNoStatement ==
    nread > 0 =>
        /\ program.type = "Program"
        /\ Len(program.statements) <= Len(source)
        /\ \A i \in 1..Len(program.statements) :
               program.statements[i].type # "nilptr"

\* ---------------------------------------------------------------------
\* a serve statement of the main task stores its entry for a port other
\* than the default port, whose table holds routes
ServesNewPort ==
    /\ pc[Main] = "serveLock2"
    /\ pc'[Main] # "serveLock2"
    /\ op[Main].port # defaultPort
    /\ routeRegistry[defaultPort] # <<>>

\* C24: when a serve binds a port other than the default port, the routes
\* declared so far are appended to the new port's table and stay in the
\* prior default port's table as well.
C24_RoutesCopiedToNewPort ==
    [][ServesNewPort =>
         /\ routeRegistry'[op[Main].port] =
                routeRegistry[op[Main].port] \o routeRegistry[defaultPort]
         /\ routeRegistry'[defaultPort] = routeRegistry[defaultPort]]_vars

\* C24 as stated: the routes declared so far are moved: after the serve they
\* are in the new port's table and no longer in the prior default port's.
C24_RoutesMovedToNewPort ==
    [][ServesNewPort =>
         /\ routeRegistry'[op[Main].port] =
                routeRegistry[op[Main].port] \o routeRegistry[defaultPort]
         /\ routeRegistry'[defaultPort] = <<>>]_vars

\* a serve has moved the default port and one route is in the tables of both
\* ports
C24_RouteInBothTables ==
    /\ defaultPort # InitialDefaultPort
    /\ lastServe.registered = defaultPort
    /\ \E i \in DOMAIN routeRegistry[InitialDefaultPort], j \in DOMAIN routeRegistry[defaultPort] :
           routeRegistry[InitialDefaultPort][i].id = routeRegistry[defaultPort][j].id

\* C25: evaluating a program the parser accepted without diagnostics yields
\* a value or an Error and never calls a method on a nil value, also when
\* the operand of a statement is missing.
C25_EvaluationNeverCrashes ==
    (nread > 0 /\ program.errors = <<>>) =>
        returned # Cut("nil pointer dereference")

\* C28: a port is in the server registry only while its listener is being
\* started or is serving: once ListenAndServe has returned, by failing to
\* bind the port or by stopping, in foreground or background mode, the
\* port is registered no more.
C28_RegisteredOnlyWhileServing ==
    \A p \in Ports :
       serverRegistry[p] # 0 => srv[serverRegistry[p]].g # "done"

\* ---------------------------------------------------------------------
\* `stop server on E` whose port expression E calls a function. The body of
\* the function is a when statement followed by `return p`, or `return p`
\* alone; op[t].registers tells that the when statement is still to run.

\* the call statement `f with 1`: evalCallExpression enters the body
CallBegin(t, registers) ==
    /\ StmtReady(t)
    /\ pc' = [pc EXCEPT ![t] = "call"]
    /\ op' = [op EXCEPT ![t] = [kind |-> "call", registers |-> registers,
                                underStop |-> FALSE]]
    /\ Silent
    /\ UNCHANGED <<serverRegistry, routeRegistry, defaultPort, mu, srv, req,
                   frames, lastServe>>
    /\ UNCHANGED session

\* `stop server on f with 1`: Lock (Unlock deferred), then Eval(node.Port)
\* enters the body of f
StopCallBegin(t, registers) ==
    /\ StmtReady(t)
    /\ CanLock
    /\ mu' = {t}
    /\ pc' = [pc EXCEPT ![t] = "call"]
    /\ op' = [op EXCEPT ![t] = [kind |-> "call", registers |-> registers,
                                underStop |-> TRUE]]
    /\ Silent
    /\ UNCHANGED <<serverRegistry, routeRegistry, defaultPort, srv, req,
                   frames, lastServe>>
    /\ UNCHANGED session

\* the when statement of the body: Lock; append; Unlock
CallRegisters(t) ==
    /\ pc[t] = "call"
    /\ op[t].registers
    /\ Cardinality(LiveRoutes) < MaxRoutes
    /\ Register(WhenHandler(NewRoute, "", "/", "req"))
    /\ op' = [op EXCEPT ![t].registers = FALSE]
    /\ Silent
    /\ UNCHANGED <<serverRegistry, defaultPort, mu, srv, pc, req, frames, lastServe>>
    /\ UNCHANGED session

\* `return p` of the body: the call statement returns p; the stop statement
\* goes on with the lookup of p and with Shutdown
CallReturns(t, p) ==
    /\ pc[t] = "call"
    /\ ~op[t].registers
    /\ IF ~op[t].underStop
       THEN /\ Return(t, IntegerObj(p))
            /\ Leave(t)
            /\ UNCHANGED <<mu, srv>>
       ELSE IF serverRegistry[p] = 0
       THEN /\ Return(t, ErrorObj("no server running on port " \o FormatInt(p)))
            /\ Leave(t)
            /\ mu' = mu \ {t}
            /\ UNCHANGED srv
       ELSE /\ srv' = CloseListener(srv, serverRegistry[p])
            /\ op' = [op EXCEPT ![t] = [kind |-> "stop", port |-> p,
                                        sid |-> serverRegistry[p]]]
            /\ pc' = [pc EXCEPT ![t] = "stopWait"]
            /\ Silent
            /\ UNCHANGED <<mu, req, frames>>
    /\ UNCHANGED <<serverRegistry, routeRegistry, defaultPort, lastServe>>
    /\ UNCHANGED session

NextStop ==
    \/ NextMain
    \/ \E registers \in BOOLEAN :
         \/ CallBegin(Main, registers)
         \/ StopCallBegin(Main, registers)
    \/ CallRegisters(Main)
    \/ \E p \in Ports : CallReturns(Main, p)

SpecStop == Init /\ [][NextStop]_vars

\* C26: no task is about to acquire the registry lock while it holds the
\* lock itself, also when the port expression of `stop server on E` calls
\* a function that registers a route.
C26_NoLockWhileHeld ==
    \A t \in Tasks : ~(t \in mu /\ pc[t] = "call" /\ op[t].registers)

\* ---------------------------------------------------------------------
\* The first request reaches an inline handler whose body is a block of at most
\* MaxBody statements, drawn from replies, a say, a set, an if around a
\* reply, a return and a statement that fails.

MaxBody == 3

ReplyA == <<"reply", "with", "\"a\"">>
ReplyB == <<"reply", "with", "\"b\"", "with", "status", "404">>
SayZ == <<"say", "\"z\"">>
SetOne == <<"set", "x", "to", "1">>
IfReplies == <<"if", "true", "then", "reply", "with", "\"c\"", "done">>
ReturnFive == <<"return", "5">>
SayUnbound == <<"say", "u">>

BodyStatements == {ReplyA, ReplyB, SayZ, SetOne, IfReplies, ReturnFive, SayUnbound}

Bodies == UNION {[1..n -> BodyStatements] : n \in 1..MaxBody}

RECURSIVE Flatten(_)
Flatten(ss) == IF ss = <<>> THEN <<>> ELSE Head(ss) \o Flatten(Tail(ss))

\* handleIncomingRequest for a matched inline handler: the body runs in a new
\* scope enclosed by the captured environment, a ReturnValue is unwrapped,
\* and the response is written from the result
Handle(words) ==
    /\ nread = 0
    /\ \E parsed \in {ParseProgram(New(Lex(words)))} :
         /\ parsed.errors = <<>>
         /\ source' = words
         /\ program' = parsed
         /\ \E r \in {Eval([type |-> "BlockStatement", statements |-> parsed.statements],
                           Len(environments) + 1,
                           [Machine(<<>>) EXCEPT
                              !.envs = NewEnclosedEnvironment(environments, Global)])} :
              /\ environments' = r.st.envs
              /\ lists' = r.st.heap
              /\ printed' = r.st.out
              /\ returned' = Unwrap(r.val)
              /\ called' = r.st.calls
              /\ resp' = WriteResponse(Unwrap(r.val))
    /\ nread' = nread + 1
    /\ UNCHANGED <<serverRegistry, routeRegistry, defaultPort, mu, srv, pc, op, req,
                   frames, result, evaluated, lastServe>>

NextReply == \E ss \in Bodies : Handle(Flatten(ss))

SpecReply == Init /\ [][NextReply]_vars

\* the value a statement of BodyStatements yields
ValueOf(words) ==
    CASE words = ReplyA -> ReplyValue("a", StatusOK, EmptyMap)
      [] words = ReplyB -> ReplyValue("b", StatusNotFound, EmptyMap)
      [] words = SayZ -> NULL
      [] words = SetOne -> IntegerObj(1)
      [] words = IfReplies -> ReplyValue("c", StatusOK, EmptyMap)
      [] words = ReturnFive -> IntegerObj(5)
      [] words = SayUnbound -> ErrorObj("undefined variable: u")

\* the last statement of a body that is evaluated: the first return or
\* failing statement, or the last statement
LastEvaluated(ss) ==
    LET ends == {i \in 1..Len(ss) : ss[i] \in {ReturnFive, SayUnbound}}
    IN IF ends = {} THEN Len(ss) ELSE CHOOSE i \in ends : \A j \in ends : i <= j

\* C27: a reply does not end the handler: the statements after it run, and
\* the response is written from the value of the last statement evaluated;
\* an earlier ReplyValue is discarded.
C27_ReplyDoesNotEndHandler ==
    \A ss \in Bodies :
       source = Flatten(ss) =>
          /\ resp = WriteResponse(ValueOf(ss[LastEvaluated(ss)]))
          /\ Len(printed) = Cardinality({i \in 1..LastEvaluated(ss) : ss[i] = SayZ})

\* a handler replied and went on: the say after the reply printed and the
\* response is that of the say
C27_SayAfterReply ==
    /\ source = ReplyA \o SayZ
    /\ printed = <<"z">>
    /\ resp = WriteResponse(NULL)

\* ---------------------------------------------------------------------
\* for each over the received list l, with bodies that append to l, return
\* or fail.

SayV == <<"say", "v">>
ForEach(body) == <<"for", "each", "v", "in", "l", "do">> \o body \o <<"done">>
ForAppends ==
    ForEach(SayV \o <<"if", "v", "is", "greater", "than", "5", "then",
                       "append", "1", "to", "l", "done">>)
ForSays == ForEach(SayV)
ForReturns == ForEach(SayV \o <<"return", "v">>)
ForFails == ForEach(SayV \o <<"say", "u">>)

ForLines == {ForAppends, ForSays, ForReturns, ForFails, AppendLine("9", "l")}

NextFor == \E words \in ForLines : Read(words, <<>>)

SpecFor == InitLists /\ [][NextFor]_vars

\* what say prints for each of the elements, in order
Said(elements) == [i \in 1..Len(elements) |-> InspectIn(lists, elements[i])]

\* the elements above 5, each of which makes ForAppends append a 1
Above5(elements) == SelectSeq(elements, LAMBDA x : x.value > 5)

\* C29: for each runs once per element the list had when the loop started,
\* in order, also when the body appends to the list, and so it ends; only
\* a ReturnValue or an Error of the body ends it before that.
C29_ForEachRunsOverTheStartingElements ==
    [][nread' = nread + 1 =>
         LET atStart == ElementsOf("l")
         IN /\ source' \in {ForAppends, ForSays} =>
                 /\ printed' = Said(atStart)
                 /\ returned'.type \notin {"CUT", "ERROR"}
            /\ source' = ForAppends =>
                 ElementsOf("l")' =
                     atStart \o [i \in 1..Len(Above5(atStart)) |-> IntegerObj(1)]
            /\ source' = ForSays => ElementsOf("l")' = atStart
            /\ (source' \in {ForReturns, ForFails} /\ atStart # <<>>) =>
                 /\ printed' = Said(SubSeq(atStart, 1, 1)) \o
                               (IF source' = ForReturns THEN Said(SubSeq(atStart, 1, 1))
                                ELSE <<"ERROR: undefined variable: u">>)
                 /\ returned' = IF source' = ForReturns THEN atStart[1]
                                ELSE ErrorObj("undefined variable: u")]_vars

\* a loop over three elements whose body appended three times has ended
\* after three iterations with six elements in the list
C29_AppendedWhileLooping ==
    /\ source = ForAppends
    /\ printed = <<"10", "20", "30">>
    /\ Len(ElementsOf("l")) = 6

\* ---------------------------------------------------------------------
\* Statements that end in an Error, after lines that bind x, define a
\* function with a side effect, and fetch from a host that answers.

DefG == <<"to", "g", "with", "a", "append", "6", "to", "l", "return", "u", "done">>
FetchUp == <<"fetch", "from", "\"http://up\"", "into", "r">>

SetUnbound == <<"set", "x", "to", "u">>
SetCallsG == <<"set", "x", "to", "g", "with", "1">>
AppendCallsG == <<"append", "g", "with", "1", "to", "l">>

CallingLines == {SetCallsG, AppendCallsG}

FailingLines ==
    CallingLines \cup
    {SetUnbound,
     <<"increase", "x", "by", "\"a\"">>,
     <<"increase", "y", "by", "1">>,
     <<"decrease", "x", "by", "u">>,
     <<"append", "u", "to", "l">>,
     <<"append", "1", "to", "x">>,
     <<"parse", "\"[1,\"", "as", "json", "into", "x">>,
     <<"parse", "7", "as", "json", "into", "x">>,
     <<"encode", "null", "as", "json", "into", "x">>,
     <<"fetch", "from", "\"http://down\"", "into", "x">>,
     <<"fetch", "from", "7", "into", "x">>}

ErrorLines == FailingLines \cup {SetTo("x", "1"), DefG, FetchUp}

NextErrors == \E words \in ErrorLines : Read(words, <<>>)

SpecErrors == InitLists /\ [][NextErrors]_vars

\* no name of any environment is bound to an Error
NoErrorBound ==
    \A i \in DOMAIN environments :
       \A n \in DOMAIN environments[i].store : environments[i].store[n].type # "ERROR"

====
